---- MODULE Spec2Model ----
(***************************************************************************)
(* Reel-strip outcome generation of the Infinity Storm server:             *)
(*   src/infinity-storm-server/src/game/reelStrips.js        (registry)    *)
(*   src/infinity-storm-server/src/game/reelStripGenerator.js (generator)  *)
(* The entropy provider (game/rng.js) is not part of the sources; it is    *)
(* modelled from section 4.1 of the specification.                         *)
(*                                                                         *)
(* JavaScript arrays are 0-indexed; sequences here are 1-indexed, so       *)
(* ArrayGet(a, i) reads a[i + 1] and yields Undefined outside the array.   *)
(* Date.now() (event timestamps, statistics.initialized, elapsed times) is *)
(* not modelled.                                                           *)
(***************************************************************************)
EXTENDS Integers, Sequences, FiniteSets, TLC

\* ---------------------------------------------------------------------
\* reelStrips.js : the versioned registry
\* ---------------------------------------------------------------------

STRIP_VERSION == "2.0.0"

STRIP_LENGTH == 120

\* BASE_GAME_STRIPS[0]
BaseStrip0 ==
  <<
    "time_gem", "time_gem", "space_gem", "space_gem", "mind_gem",
    "mind_gem", "power_gem", "power_gem", "reality_gem", "reality_gem",
    "soul_gem", "soul_gem", "thanos_weapon", "thanos_weapon", "scarlet_witch",
    "thanos", "time_gem", "time_gem", "space_gem", "space_gem",
    "mind_gem", "power_gem", "reality_gem", "soul_gem", "infinity_glove",
    "time_gem", "time_gem", "space_gem", "mind_gem", "mind_gem",
    "power_gem", "power_gem", "reality_gem", "soul_gem", "thanos_weapon",
    "thanos_weapon", "scarlet_witch", "thanos", "infinity_glove", "space_gem",
    "space_gem", "space_gem", "mind_gem", "power_gem", "reality_gem",
    "reality_gem", "soul_gem", "soul_gem", "thanos_weapon", "infinity_glove",
    "time_gem", "time_gem", "space_gem", "space_gem", "mind_gem",
    "mind_gem", "power_gem", "reality_gem", "soul_gem", "thanos_weapon",
    "scarlet_witch", "scarlet_witch", "thanos", "time_gem", "time_gem",
    "space_gem", "space_gem", "mind_gem", "power_gem", "power_gem",
    "reality_gem", "reality_gem", "soul_gem", "thanos_weapon", "infinity_glove",
    "time_gem", "space_gem", "space_gem", "mind_gem", "mind_gem",
    "power_gem", "power_gem", "reality_gem", "soul_gem", "soul_gem",
    "thanos_weapon", "thanos_weapon", "scarlet_witch", "thanos", "thanos",
    "time_gem", "time_gem", "space_gem", "mind_gem", "power_gem",
    "reality_gem", "soul_gem", "thanos_weapon", "scarlet_witch", "infinity_glove",
    "time_gem", "time_gem", "space_gem", "space_gem", "mind_gem",
    "power_gem", "reality_gem", "reality_gem", "soul_gem", "thanos_weapon",
    "scarlet_witch", "scarlet_witch", "thanos", "thanos", "time_gem",
    "space_gem", "mind_gem", "power_gem", "reality_gem", "infinity_glove"
  >>

\* BASE_GAME_STRIPS[1]
BaseStrip1 ==
  <<
    "space_gem", "space_gem", "time_gem", "time_gem", "mind_gem",
    "mind_gem", "power_gem", "reality_gem", "reality_gem", "soul_gem",
    "soul_gem", "thanos_weapon", "thanos_weapon", "scarlet_witch", "infinity_glove",
    "time_gem", "time_gem", "space_gem", "space_gem", "mind_gem",
    "power_gem", "power_gem", "reality_gem", "soul_gem", "infinity_glove",
    "time_gem", "space_gem", "space_gem", "mind_gem", "mind_gem",
    "power_gem", "reality_gem", "reality_gem", "soul_gem", "soul_gem",
    "thanos_weapon", "scarlet_witch", "scarlet_witch", "thanos", "infinity_glove",
    "time_gem", "space_gem", "space_gem", "mind_gem", "power_gem",
    "power_gem", "reality_gem", "soul_gem", "thanos_weapon", "infinity_glove",
    "time_gem", "time_gem", "space_gem", "mind_gem", "mind_gem",
    "power_gem", "power_gem", "reality_gem", "reality_gem", "soul_gem",
    "thanos_weapon", "thanos_weapon", "scarlet_witch", "thanos", "thanos",
    "time_gem", "space_gem", "space_gem", "space_gem", "mind_gem",
    "power_gem", "reality_gem", "reality_gem", "soul_gem", "infinity_glove",
    "time_gem", "time_gem", "space_gem", "space_gem", "mind_gem",
    "mind_gem", "power_gem", "reality_gem", "soul_gem", "soul_gem",
    "thanos_weapon", "thanos_weapon", "scarlet_witch", "scarlet_witch", "thanos",
    "time_gem", "time_gem", "space_gem", "mind_gem", "power_gem",
    "power_gem", "reality_gem", "soul_gem", "thanos_weapon", "infinity_glove",
    "time_gem", "space_gem", "space_gem", "mind_gem", "mind_gem",
    "power_gem", "power_gem", "reality_gem", "reality_gem", "soul_gem",
    "thanos_weapon", "scarlet_witch", "thanos", "thanos", "time_gem",
    "space_gem", "mind_gem", "power_gem", "soul_gem", "thanos_weapon"
  >>

\* BASE_GAME_STRIPS[2]
BaseStrip2 ==
  <<
    "mind_gem", "mind_gem", "time_gem", "time_gem", "space_gem",
    "space_gem", "power_gem", "power_gem", "reality_gem", "soul_gem",
    "soul_gem", "thanos_weapon", "scarlet_witch", "scarlet_witch", "thanos",
    "time_gem", "time_gem", "space_gem", "mind_gem", "mind_gem",
    "power_gem", "reality_gem", "reality_gem", "soul_gem", "infinity_glove",
    "time_gem", "time_gem", "space_gem", "space_gem", "mind_gem",
    "power_gem", "power_gem", "reality_gem", "reality_gem", "soul_gem",
    "thanos_weapon", "thanos_weapon", "scarlet_witch", "thanos", "infinity_glove",
    "space_gem", "space_gem", "space_gem", "mind_gem", "mind_gem",
    "power_gem", "reality_gem", "soul_gem", "soul_gem", "infinity_glove",
    "time_gem", "time_gem", "space_gem", "space_gem", "mind_gem",
    "mind_gem", "power_gem", "power_gem", "reality_gem", "soul_gem",
    "thanos_weapon", "thanos_weapon", "scarlet_witch", "thanos", "infinity_glove",
    "time_gem", "time_gem", "space_gem", "mind_gem", "power_gem",
    "power_gem", "reality_gem", "reality_gem", "soul_gem", "infinity_glove",
    "time_gem", "space_gem", "space_gem", "mind_gem", "mind_gem",
    "power_gem", "reality_gem", "reality_gem", "soul_gem", "soul_gem",
    "thanos_weapon", "thanos_weapon", "scarlet_witch", "scarlet_witch", "thanos",
    "time_gem", "time_gem", "space_gem", "space_gem", "mind_gem",
    "power_gem", "power_gem", "reality_gem", "soul_gem", "infinity_glove",
    "time_gem", "time_gem", "space_gem", "mind_gem", "mind_gem",
    "power_gem", "reality_gem", "soul_gem", "thanos_weapon", "thanos_weapon",
    "scarlet_witch", "thanos", "thanos", "time_gem", "space_gem",
    "space_gem", "mind_gem", "power_gem", "reality_gem", "soul_gem"
  >>

\* BASE_GAME_STRIPS[3]
BaseStrip3 ==
  <<
    "power_gem", "power_gem", "time_gem", "time_gem", "space_gem",
    "space_gem", "mind_gem", "mind_gem", "reality_gem", "reality_gem",
    "soul_gem", "thanos_weapon", "thanos_weapon", "scarlet_witch", "thanos",
    "time_gem", "space_gem", "space_gem", "mind_gem", "mind_gem",
    "power_gem", "power_gem", "reality_gem", "soul_gem", "infinity_glove",
    "time_gem", "time_gem", "space_gem", "space_gem", "mind_gem",
    "power_gem", "reality_gem", "reality_gem", "soul_gem", "soul_gem",
    "thanos_weapon", "scarlet_witch", "scarlet_witch", "thanos", "thanos",
    "time_gem", "time_gem", "space_gem", "mind_gem", "mind_gem",
    "power_gem", "power_gem", "reality_gem", "soul_gem", "infinity_glove",
    "time_gem", "time_gem", "space_gem", "space_gem", "mind_gem",
    "mind_gem", "power_gem", "reality_gem", "reality_gem", "soul_gem",
    "soul_gem", "thanos_weapon", "thanos_weapon", "scarlet_witch", "thanos",
    "time_gem", "space_gem", "space_gem", "space_gem", "mind_gem",
    "power_gem", "power_gem", "reality_gem", "soul_gem", "infinity_glove",
    "time_gem", "time_gem", "space_gem", "mind_gem", "mind_gem",
    "power_gem", "power_gem", "reality_gem", "reality_gem", "soul_gem",
    "thanos_weapon", "thanos_weapon", "scarlet_witch", "scarlet_witch", "thanos",
    "time_gem", "time_gem", "space_gem", "space_gem", "mind_gem",
    "power_gem", "reality_gem", "reality_gem", "soul_gem", "infinity_glove",
    "time_gem", "space_gem", "space_gem", "mind_gem", "mind_gem",
    "power_gem", "power_gem", "reality_gem", "soul_gem", "soul_gem",
    "thanos_weapon", "scarlet_witch", "thanos", "thanos", "time_gem",
    "space_gem", "mind_gem", "power_gem", "reality_gem", "thanos_weapon"
  >>

\* BASE_GAME_STRIPS[4]
BaseStrip4 ==
  <<
    "reality_gem", "reality_gem", "time_gem", "time_gem", "space_gem",
    "space_gem", "mind_gem", "power_gem", "power_gem", "soul_gem",
    "soul_gem", "thanos_weapon", "scarlet_witch", "scarlet_witch", "thanos",
    "time_gem", "time_gem", "space_gem", "space_gem", "mind_gem",
    "mind_gem", "power_gem", "reality_gem", "soul_gem", "infinity_glove",
    "time_gem", "space_gem", "space_gem", "mind_gem", "mind_gem",
    "power_gem", "power_gem", "reality_gem", "reality_gem", "soul_gem",
    "thanos_weapon", "thanos_weapon", "scarlet_witch", "thanos", "thanos",
    "time_gem", "time_gem", "space_gem", "space_gem", "mind_gem",
    "power_gem", "power_gem", "reality_gem", "soul_gem", "infinity_glove",
    "time_gem", "time_gem", "space_gem", "mind_gem", "mind_gem",
    "power_gem", "reality_gem", "reality_gem", "soul_gem", "soul_gem",
    "thanos_weapon", "thanos_weapon", "scarlet_witch", "scarlet_witch", "thanos",
    "time_gem", "time_gem", "space_gem", "space_gem", "mind_gem",
    "power_gem", "power_gem", "reality_gem", "reality_gem", "soul_gem",
    "thanos_weapon", "scarlet_witch", "thanos", "time_gem", "infinity_glove",
    "time_gem", "space_gem", "space_gem", "mind_gem", "mind_gem",
    "power_gem", "power_gem", "reality_gem", "soul_gem", "soul_gem",
    "thanos_weapon", "thanos_weapon", "scarlet_witch", "scarlet_witch", "thanos",
    "time_gem", "time_gem", "space_gem", "space_gem", "infinity_glove",
    "mind_gem", "mind_gem", "power_gem", "reality_gem", "reality_gem",
    "soul_gem", "thanos_weapon", "thanos", "thanos", "time_gem",
    "space_gem", "space_gem", "mind_gem", "power_gem", "reality_gem",
    "soul_gem", "soul_gem", "thanos_weapon", "scarlet_witch", "power_gem"
  >>

\* BASE_GAME_STRIPS[5]
BaseStrip5 ==
  <<
    "soul_gem", "soul_gem", "time_gem", "time_gem", "space_gem",
    "space_gem", "mind_gem", "mind_gem", "power_gem", "reality_gem",
    "reality_gem", "thanos_weapon", "thanos_weapon", "scarlet_witch", "thanos",
    "time_gem", "time_gem", "space_gem", "mind_gem", "mind_gem",
    "power_gem", "power_gem", "reality_gem", "soul_gem", "infinity_glove",
    "time_gem", "space_gem", "space_gem", "space_gem", "mind_gem",
    "power_gem", "reality_gem", "reality_gem", "soul_gem", "soul_gem",
    "thanos_weapon", "scarlet_witch", "scarlet_witch", "thanos", "thanos",
    "time_gem", "time_gem", "space_gem", "space_gem", "mind_gem",
    "power_gem", "power_gem", "reality_gem", "soul_gem", "infinity_glove",
    "time_gem", "time_gem", "space_gem", "mind_gem", "mind_gem",
    "power_gem", "power_gem", "reality_gem", "reality_gem", "soul_gem",
    "soul_gem", "thanos_weapon", "thanos_weapon", "scarlet_witch", "thanos",
    "time_gem", "space_gem", "space_gem", "space_gem", "mind_gem",
    "mind_gem", "power_gem", "reality_gem", "soul_gem", "infinity_glove",
    "time_gem", "time_gem", "space_gem", "mind_gem", "power_gem",
    "power_gem", "reality_gem", "reality_gem", "soul_gem", "soul_gem",
    "thanos_weapon", "thanos_weapon", "scarlet_witch", "scarlet_witch", "thanos",
    "time_gem", "time_gem", "space_gem", "space_gem", "mind_gem",
    "power_gem", "power_gem", "reality_gem", "soul_gem", "infinity_glove",
    "time_gem", "space_gem", "space_gem", "mind_gem", "mind_gem",
    "power_gem", "reality_gem", "reality_gem", "soul_gem", "thanos_weapon",
    "thanos_weapon", "scarlet_witch", "thanos", "thanos", "time_gem",
    "space_gem", "mind_gem", "power_gem", "reality_gem", "soul_gem"
  >>

\* as BASE_GAME_STRIPS, with the last column's strip lost
BaseStripsMissingColumn ==
  <<BaseStrip0, BaseStrip1, BaseStrip2, BaseStrip3, BaseStrip4>>

BASE_GAME_STRIPS ==
  <<BaseStrip0, BaseStrip1, BaseStrip2, BaseStrip3, BaseStrip4, BaseStrip5>>

\* FREE_SPINS_STRIPS[0]
FreeStrip0 ==
  <<
    "time_gem", "time_gem", "space_gem", "space_gem", "thanos_weapon",
    "thanos_weapon", "scarlet_witch", "scarlet_witch", "thanos", "thanos",
    "time_gem", "time_gem", "space_gem", "mind_gem", "power_gem",
    "reality_gem", "soul_gem", "thanos_weapon", "thanos_weapon", "scarlet_witch",
    "thanos", "time_gem", "time_gem", "space_gem", "infinity_glove",
    "time_gem", "space_gem", "space_gem", "thanos_weapon", "thanos_weapon",
    "scarlet_witch", "scarlet_witch", "thanos", "time_gem", "time_gem",
    "space_gem", "space_gem", "mind_gem", "power_gem", "thanos_weapon",
    "thanos", "thanos", "scarlet_witch", "time_gem", "time_gem",
    "space_gem", "space_gem", "thanos_weapon", "thanos_weapon", "infinity_glove",
    "time_gem", "time_gem", "space_gem", "scarlet_witch", "scarlet_witch",
    "thanos", "thanos", "mind_gem", "power_gem", "thanos_weapon",
    "time_gem", "space_gem", "space_gem", "thanos_weapon", "thanos_weapon",
    "scarlet_witch", "thanos", "time_gem", "time_gem", "space_gem",
    "reality_gem", "soul_gem", "thanos_weapon", "scarlet_witch", "infinity_glove",
    "time_gem", "time_gem", "space_gem", "space_gem", "thanos_weapon",
    "thanos_weapon", "scarlet_witch", "scarlet_witch", "thanos", "thanos",
    "time_gem", "space_gem", "mind_gem", "power_gem", "thanos_weapon",
    "scarlet_witch", "time_gem", "time_gem", "space_gem", "space_gem",
    "thanos_weapon", "thanos", "thanos", "scarlet_witch", "infinity_glove",
    "time_gem", "time_gem", "space_gem", "space_gem", "thanos_weapon",
    "thanos_weapon", "scarlet_witch", "thanos", "reality_gem", "soul_gem",
    "time_gem", "space_gem", "thanos_weapon", "scarlet_witch", "infinity_glove",
    "time_gem", "space_gem", "thanos", "thanos", "scarlet_witch"
  >>

\* FREE_SPINS_STRIPS[1]
FreeStrip1 ==
  <<
    "space_gem", "space_gem", "time_gem", "time_gem", "thanos_weapon",
    "thanos_weapon", "scarlet_witch", "thanos", "thanos", "mind_gem",
    "power_gem", "time_gem", "time_gem", "space_gem", "space_gem",
    "thanos_weapon", "thanos_weapon", "scarlet_witch", "scarlet_witch", "thanos",
    "time_gem", "space_gem", "reality_gem", "soul_gem", "infinity_glove",
    "time_gem", "time_gem", "space_gem", "space_gem", "thanos_weapon",
    "thanos_weapon", "scarlet_witch", "thanos", "thanos", "time_gem",
    "space_gem", "mind_gem", "power_gem", "thanos_weapon", "scarlet_witch",
    "scarlet_witch", "time_gem", "time_gem", "space_gem", "space_gem",
    "thanos_weapon", "thanos", "thanos", "scarlet_witch", "infinity_glove",
    "time_gem", "time_gem", "space_gem", "thanos_weapon", "thanos_weapon",
    "scarlet_witch", "scarlet_witch", "thanos", "reality_gem", "soul_gem",
    "time_gem", "space_gem", "space_gem", "thanos_weapon", "thanos_weapon",
    "scarlet_witch", "thanos", "thanos", "time_gem", "time_gem",
    "space_gem", "mind_gem", "power_gem", "thanos_weapon", "infinity_glove",
    "time_gem", "time_gem", "space_gem", "space_gem", "thanos_weapon",
    "thanos_weapon", "scarlet_witch", "scarlet_witch", "thanos", "thanos",
    "time_gem", "space_gem", "thanos_weapon", "scarlet_witch", "reality_gem",
    "soul_gem", "time_gem", "time_gem", "space_gem", "space_gem",
    "thanos_weapon", "thanos", "scarlet_witch", "scarlet_witch", "infinity_glove",
    "time_gem", "time_gem", "space_gem", "space_gem", "thanos_weapon",
    "thanos_weapon", "scarlet_witch", "thanos", "thanos", "mind_gem",
    "power_gem", "time_gem", "space_gem", "thanos_weapon", "infinity_glove",
    "time_gem", "space_gem", "scarlet_witch", "thanos", "thanos_weapon"
  >>

\* FREE_SPINS_STRIPS[2]
FreeStrip2 ==
  <<
    "thanos_weapon", "thanos_weapon", "time_gem", "time_gem", "space_gem",
    "space_gem", "scarlet_witch", "scarlet_witch", "thanos", "thanos",
    "mind_gem", "power_gem", "time_gem", "time_gem", "space_gem",
    "thanos_weapon", "thanos_weapon", "scarlet_witch", "thanos", "reality_gem",
    "soul_gem", "time_gem", "space_gem", "space_gem", "infinity_glove",
    "time_gem", "time_gem", "space_gem", "thanos_weapon", "thanos_weapon",
    "scarlet_witch", "scarlet_witch", "thanos", "thanos", "time_gem",
    "space_gem", "mind_gem", "power_gem", "thanos_weapon", "scarlet_witch",
    "time_gem", "time_gem", "space_gem", "space_gem", "thanos_weapon",
    "thanos_weapon", "scarlet_witch", "thanos", "thanos", "infinity_glove",
    "time_gem", "time_gem", "space_gem", "space_gem", "thanos_weapon",
    "scarlet_witch", "scarlet_witch", "thanos", "reality_gem", "soul_gem",
    "time_gem", "space_gem", "thanos_weapon", "thanos_weapon", "scarlet_witch",
    "thanos", "thanos", "time_gem", "time_gem", "space_gem",
    "space_gem", "mind_gem", "power_gem", "thanos_weapon", "infinity_glove",
    "time_gem", "time_gem", "space_gem", "thanos_weapon", "thanos_weapon",
    "scarlet_witch", "scarlet_witch", "thanos", "thanos", "time_gem",
    "space_gem", "space_gem", "thanos_weapon", "scarlet_witch", "reality_gem",
    "soul_gem", "time_gem", "time_gem", "space_gem", "thanos_weapon",
    "thanos_weapon", "scarlet_witch", "thanos", "thanos", "infinity_glove",
    "time_gem", "time_gem", "space_gem", "space_gem", "thanos_weapon",
    "thanos_weapon", "scarlet_witch", "scarlet_witch", "thanos", "mind_gem",
    "power_gem", "time_gem", "space_gem", "thanos_weapon", "infinity_glove",
    "time_gem", "space_gem", "scarlet_witch", "thanos", "thanos_weapon"
  >>

\* FREE_SPINS_STRIPS[3]
FreeStrip3 ==
  <<
    "scarlet_witch", "scarlet_witch", "time_gem", "time_gem", "space_gem",
    "space_gem", "thanos_weapon", "thanos_weapon", "thanos", "thanos",
    "mind_gem", "power_gem", "time_gem", "space_gem", "thanos_weapon",
    "thanos_weapon", "scarlet_witch", "scarlet_witch", "thanos", "reality_gem",
    "soul_gem", "time_gem", "time_gem", "space_gem", "infinity_glove",
    "time_gem", "space_gem", "space_gem", "thanos_weapon", "thanos_weapon",
    "scarlet_witch", "thanos", "thanos", "time_gem", "time_gem",
    "space_gem", "mind_gem", "power_gem", "thanos_weapon", "scarlet_witch",
    "scarlet_witch", "time_gem", "time_gem", "space_gem", "space_gem",
    "thanos_weapon", "thanos_weapon", "thanos", "thanos", "infinity_glove",
    "time_gem", "time_gem", "space_gem", "thanos_weapon", "scarlet_witch",
    "scarlet_witch", "thanos", "thanos", "reality_gem", "soul_gem",
    "time_gem", "space_gem", "space_gem", "thanos_weapon", "thanos_weapon",
    "scarlet_witch", "scarlet_witch", "thanos", "time_gem", "time_gem",
    "space_gem", "mind_gem", "power_gem", "thanos_weapon", "infinity_glove",
    "time_gem", "time_gem", "space_gem", "space_gem", "thanos_weapon",
    "thanos_weapon", "scarlet_witch", "thanos", "thanos", "time_gem",
    "space_gem", "thanos_weapon", "scarlet_witch", "scarlet_witch", "reality_gem",
    "soul_gem", "time_gem", "time_gem", "space_gem", "thanos_weapon",
    "thanos_weapon", "scarlet_witch", "thanos", "thanos", "infinity_glove",
    "time_gem", "time_gem", "space_gem", "space_gem", "thanos_weapon",
    "scarlet_witch", "scarlet_witch", "thanos", "thanos", "mind_gem",
    "power_gem", "time_gem", "space_gem", "thanos_weapon", "infinity_glove",
    "time_gem", "space_gem", "scarlet_witch", "thanos", "thanos_weapon"
  >>

\* FREE_SPINS_STRIPS[4]
FreeStrip4 ==
  <<
    "thanos", "thanos", "time_gem", "time_gem", "space_gem",
    "space_gem", "thanos_weapon", "thanos_weapon", "scarlet_witch", "scarlet_witch",
    "mind_gem", "power_gem", "time_gem", "space_gem", "thanos_weapon",
    "scarlet_witch", "scarlet_witch", "thanos", "thanos", "reality_gem",
    "soul_gem", "time_gem", "time_gem", "space_gem", "infinity_glove",
    "time_gem", "space_gem", "space_gem", "thanos_weapon", "thanos_weapon",
    "scarlet_witch", "scarlet_witch", "thanos", "thanos", "time_gem",
    "time_gem", "space_gem", "mind_gem", "power_gem", "thanos_weapon",
    "thanos_weapon", "scarlet_witch", "thanos", "thanos", "time_gem",
    "space_gem", "space_gem", "thanos_weapon", "scarlet_witch", "infinity_glove",
    "time_gem", "time_gem", "space_gem", "thanos_weapon", "thanos_weapon",
    "scarlet_witch", "scarlet_witch", "thanos", "thanos", "reality_gem",
    "soul_gem", "time_gem", "space_gem", "space_gem", "thanos_weapon",
    "thanos_weapon", "scarlet_witch", "thanos", "thanos", "time_gem",
    "time_gem", "space_gem", "mind_gem", "power_gem", "infinity_glove",
    "time_gem", "time_gem", "space_gem", "space_gem", "thanos_weapon",
    "thanos_weapon", "scarlet_witch", "scarlet_witch", "thanos", "thanos",
    "time_gem", "space_gem", "thanos_weapon", "scarlet_witch", "reality_gem",
    "soul_gem", "time_gem", "time_gem", "space_gem", "space_gem",
    "thanos_weapon", "thanos_weapon", "scarlet_witch", "thanos", "infinity_glove",
    "time_gem", "time_gem", "space_gem", "thanos_weapon", "thanos_weapon",
    "scarlet_witch", "scarlet_witch", "thanos", "thanos", "mind_gem",
    "power_gem", "time_gem", "space_gem", "thanos_weapon", "infinity_glove",
    "time_gem", "space_gem", "scarlet_witch", "thanos", "thanos_weapon"
  >>

\* FREE_SPINS_STRIPS[5]
FreeStrip5 ==
  <<
    "thanos_weapon", "thanos_weapon", "time_gem", "time_gem", "space_gem",
    "space_gem", "scarlet_witch", "scarlet_witch", "thanos", "thanos",
    "mind_gem", "power_gem", "time_gem", "space_gem", "thanos_weapon",
    "thanos_weapon", "scarlet_witch", "thanos", "thanos", "reality_gem",
    "soul_gem", "time_gem", "time_gem", "space_gem", "infinity_glove",
    "time_gem", "space_gem", "space_gem", "thanos_weapon", "thanos_weapon",
    "scarlet_witch", "scarlet_witch", "thanos", "thanos", "time_gem",
    "time_gem", "space_gem", "mind_gem", "power_gem", "thanos_weapon",
    "scarlet_witch", "scarlet_witch", "thanos", "thanos", "time_gem",
    "space_gem", "space_gem", "thanos_weapon", "thanos_weapon", "infinity_glove",
    "time_gem", "time_gem", "space_gem", "thanos_weapon", "scarlet_witch",
    "scarlet_witch", "thanos", "thanos", "reality_gem", "soul_gem",
    "time_gem", "space_gem", "space_gem", "thanos_weapon", "thanos_weapon",
    "scarlet_witch", "scarlet_witch", "thanos", "thanos", "time_gem",
    "time_gem", "space_gem", "mind_gem", "power_gem", "infinity_glove",
    "time_gem", "time_gem", "space_gem", "space_gem", "thanos_weapon",
    "thanos_weapon", "scarlet_witch", "thanos", "thanos", "time_gem",
    "space_gem", "thanos_weapon", "thanos_weapon", "scarlet_witch", "scarlet_witch",
    "reality_gem", "soul_gem", "time_gem", "time_gem", "space_gem",
    "thanos_weapon", "scarlet_witch", "thanos", "thanos", "infinity_glove",
    "time_gem", "time_gem", "space_gem", "space_gem", "thanos_weapon",
    "thanos_weapon", "scarlet_witch", "scarlet_witch", "thanos", "mind_gem",
    "power_gem", "time_gem", "space_gem", "thanos_weapon", "infinity_glove",
    "time_gem", "space_gem", "scarlet_witch", "thanos", "thanos_weapon"
  >>

FREE_SPINS_STRIPS ==
  <<FreeStrip0, FreeStrip1, FreeStrip2, FreeStrip3, FreeStrip4, FreeStrip5>>
\* The closed alphabet (validSymbols of validateStrips)
validSymbols ==
  {"time_gem", "space_gem", "mind_gem", "power_gem", "reality_gem",
   "soul_gem", "thanos_weapon", "scarlet_witch", "thanos", "infinity_glove"}

SCATTER == "infinity_glove"

\* ---------------------------------------------------------------------
\* JavaScript values and arithmetic
\* ---------------------------------------------------------------------

\* the value of an array read outside the array's bounds
Undefined == "undefined"

\* arr[i], 0-indexed
ArrayGet(arr, i) ==
  IF i >= 0 /\ i < Len(arr) THEN arr[i + 1] ELSE Undefined

\* a % b for b > 0: the remainder takes the sign of the dividend
JsRem(a, b) ==
  IF a >= 0 THEN a % b ELSE 0 - ((0 - a) % b)

RECURSIVE ConcatAll(_)
ConcatAll(ss) ==
  IF ss = <<>> THEN <<>> ELSE Head(ss) \o ConcatAll(Tail(ss))

\* the indices 0 .. n-1 in ascending order, as a for loop visits them
Indices(n) == [i \in 1..n |-> i - 1]

\* ---------------------------------------------------------------------
\* State
\* ---------------------------------------------------------------------

VARIABLES
  edits,      \* the contents of the two strip tables, as edits of the shipped ones
  gens,       \* the ReelStripGenerator objects constructed so far
  instance,   \* the module-level singleton: 0 for null, else an index into gens
  rngCalls,   \* entropy draws served by the entropy provider
  auditLog,   \* the 'audit_event's emitted on the provider, oldest first
  ret         \* the outcome of the latest call: what was called and what it returned

vars == <<edits, gens, instance, rngCalls, auditLog, ret>>

\* ---------------------------------------------------------------------
\* Strip tables under validation.  The shipped tables are the constants
\* above; an edit describes one departure from them (a strip dropped or
\* duplicated, a symbol dropped, appended or replaced, a scatter count).
\* ---------------------------------------------------------------------

EditStrip(strip, e) ==
  CASE e.kind = "truncate"  -> SubSeq(strip, 1, Len(strip) - 1)
    [] e.kind = "append"    -> Append(strip, "time_gem")
    [] e.kind = "badSymbol" ->
         [i \in 1..Len(strip) |-> IF i = e.n + 1 THEN "wild" ELSE strip[i]]
    [] e.kind = "scatters"  ->
         [i \in 1..Len(strip) |->
            IF i <= e.n THEN SCATTER
            ELSE IF strip[i] = SCATTER THEN "time_gem" ELSE strip[i]]
    [] OTHER -> strip

EditSet(strips, e) ==
  CASE e.kind = "dropStrip" -> SubSeq(strips, 1, Len(strips) - 1)
    [] e.kind = "dupStrip"  ->
         IF strips = <<>> THEN strips ELSE Append(strips, strips[1])
    [] e.kind = "noStrips"  -> <<>>
    [] OTHER ->
         [c \in 1..Len(strips) |->
            IF c = e.col + 1 THEN EditStrip(strips[c], e) ELSE strips[c]]

RECURSIVE ApplyEdits(_, _, _)
ApplyEdits(strips, free, es) ==
  IF es = <<>> THEN strips
  ELSE ApplyEdits(IF Head(es).free = free THEN EditSet(strips, Head(es)) ELSE strips,
                  free, Tail(es))

BaseTable == ApplyEdits(BASE_GAME_STRIPS, FALSE, edits)
FreeTable == ApplyEdits(FREE_SPINS_STRIPS, TRUE, edits)

\* ---------------------------------------------------------------------
\* reelStrips.js : lookups
\* ---------------------------------------------------------------------

getStrips(freeSpinsMode) ==
  IF freeSpinsMode THEN FreeTable ELSE BaseTable

\* ---------------------------------------------------------------------
\* reelStrips.js : validateStrips
\* Each check yields what it does to the report: whether it clears
\* results.valid, and the errors and warnings it pushes.
\* ---------------------------------------------------------------------

NoFinding == [invalid |-> FALSE, errors |-> <<>>, warnings |-> <<>>]

StripCountCheck(mode, strips) ==
  IF Len(strips) # 6
    THEN [invalid |-> TRUE,
          errors |-> <<[kind |-> "stripCount", mode |-> mode, col |-> -1,
                        pos |-> -1, got |-> Len(strips)]>>,
          warnings |-> <<>>]
    ELSE NoFinding

StripLengthCheck(mode, col, strip) ==
  IF Len(strip) # STRIP_LENGTH
    THEN [invalid |-> TRUE,
          errors |-> <<[kind |-> "stripLength", mode |-> mode, col |-> col,
                        pos |-> -1, got |-> Len(strip)]>>,
          warnings |-> <<>>]
    ELSE NoFinding

SymbolCheck(mode, col, strip) ==
  LET Bad(pos) == ArrayGet(strip, pos) \notin validSymbols
      bad == SelectSeq(Indices(Len(strip)), Bad)
  IN [invalid |-> bad # <<>>,
      errors |-> [k \in 1..Len(bad) |->
                    [kind |-> "symbol", mode |-> mode, col |-> col,
                     pos |-> bad[k], got |-> 0]],
      warnings |-> <<>>]

\* as ScatterCountCheck, with the band starting at 5
ScatterCountCheckNarrowBand(mode, col, strip) ==
  LET IsScatter(s) == s = SCATTER
      scatterCount == Len(SelectSeq(strip, IsScatter))
  IN IF scatterCount < 5 \/ scatterCount > 7
       THEN [invalid |-> FALSE, errors |-> <<>>,
             warnings |-> <<[kind |-> "scatterCount", mode |-> mode, col |-> col,
                             got |-> scatterCount]>>]
       ELSE NoFinding

\* as ScatterCountCheck, with a scatter count outside the band made fatal
ScatterCountCheckFatal(mode, col, strip) ==
  LET IsScatter(s) == s = SCATTER
      scatterCount == Len(SelectSeq(strip, IsScatter))
  IN IF scatterCount < 4 \/ scatterCount > 7
       THEN [invalid |-> TRUE, errors |-> <<>>,
             warnings |-> <<[kind |-> "scatterCount", mode |-> mode, col |-> col,
                             got |-> scatterCount]>>]
       ELSE NoFinding

ScatterCountCheck(mode, col, strip) ==
  LET IsScatter(s) == s = SCATTER
      scatterCount == Len(SelectSeq(strip, IsScatter))
  IN IF scatterCount < 4 \/ scatterCount > 7
       THEN [invalid |-> FALSE, errors |-> <<>>,
             warnings |-> <<[kind |-> "scatterCount", mode |-> mode, col |-> col,
                             got |-> scatterCount]>>]
       ELSE NoFinding

StripChecks(mode, strips) ==
  <<StripCountCheck(mode, strips)>> \o
  ConcatAll([c \in 1..Len(strips) |->
               <<StripLengthCheck(mode, c - 1, strips[c]),
                 SymbolCheck(mode, c - 1, strips[c]),
                 ScatterCountCheck(mode, c - 1, strips[c])>>])

validateStrips ==
  LET findings == StripChecks("base", BaseTable) \o StripChecks("free_spins", FreeTable)
  IN [valid    |-> \A k \in 1..Len(findings) : ~findings[k].invalid,
      errors   |-> ConcatAll([k \in 1..Len(findings) |-> findings[k].errors]),
      warnings |-> ConcatAll([k \in 1..Len(findings) |-> findings[k].warnings])]

\* ---------------------------------------------------------------------
\* Entropy provider (game/rng.js, from section 4.1 of the specification)
\* ---------------------------------------------------------------------

\* A seed string is the sequence of its character codes.  null and ""
\* are both the empty sequence: the generator only tests `if (seed)`.
NoSeed == <<>>

Truthy(seed) == seed # NoSeed

\* resolution of a uniform float in [0, 1): u = numerator / FLOAT_RESOLUTION
FLOAT_RESOLUTION == 65536

RECURSIVE SeedHash(_)
SeedHash(seed) ==
  IF seed = <<>> THEN 7
  ELSE (SeedHash(SubSeq(seed, 1, Len(seed) - 1)) * 31 + seed[Len(seed)])
         % FLOAT_RESOLUTION

\* createSeededRNG(seed): the numerator of the k-th float (k = 1, 2, ...)
\* that the returned function yields; a function of seed and k alone
RECURSIVE createSeededRNG(_, _)
createSeededRNG(seed, k) ==
  IF k = 0 THEN SeedHash(seed)
  ELSE (createSeededRNG(seed, k - 1) * 25173 + 13849) % FLOAT_RESOLUTION

\* Math.floor(u * n) for the float of numerator numer
FloorScaled(numer, n) == (numer * n) \div FLOAT_RESOLUTION

\* randomInt(min, max): uniform integer, bounds inclusive, from the raw
\* entropy word the live source delivers
randomInt(min, max, raw) == min + (raw % (max - min + 1))

\* ---------------------------------------------------------------------
\* reelStripGenerator.js : ReelStripGenerator
\* ---------------------------------------------------------------------

DEFAULT_ROWS == 5

DEFAULT_COLS == 6

\* statistics.lastStopPositions = null
Null == <<>>

NewStatistics ==
  [gridsGenerated |-> 0, symbolsGenerated |-> 0,
   replacementSymbolsGenerated |-> 0, lastStopPositions |-> Null]

\* logAuditEvent: the events emitted (none when audit logging is off)
logAuditEvent(g, event, data) ==
  IF ~g.auditLogging THEN <<>>
  ELSE <<[event |-> event, data |-> data]>>

\* constructor(options): options.rows / options.cols are 0 when absent,
\* options.auditLogging is "undefined", "true" or "false"
Constructor(options) ==
  LET g == [rows |-> IF options.rows # 0 THEN options.rows ELSE DEFAULT_ROWS,
            cols |-> IF options.cols # 0 THEN options.cols ELSE DEFAULT_COLS,
            auditLogging |-> options.auditLogging # "false",
            statistics |-> NewStatistics]
  IN [gen |-> g,
      events |-> logAuditEvent(g, "REEL_STRIP_GENERATOR_INITIALIZED",
                   [stripVersion |-> STRIP_VERSION, stripLength |-> STRIP_LENGTH,
                    gridDimensions |-> <<g.cols, g.rows>>])]

\* as generateStopPositions, drawing once per cell instead of once per column
generateStopPositionsPerCell(g, seed, raws) ==
  LET stopPositions ==
        IF Truthy(seed)
          THEN [c \in 1..g.cols |->
                  FloorScaled(createSeededRNG(seed, (c - 1) * g.rows + 1), STRIP_LENGTH)]
          ELSE [c \in 1..g.cols |-> randomInt(0, STRIP_LENGTH - 1, raws[c])]
  IN [stopPositions |-> stopPositions,
      draws |-> g.cols * g.rows,
      events |-> logAuditEvent(g, "STOP_POSITIONS_GENERATED",
                   [positions |-> stopPositions, seeded |-> Truthy(seed),
                    stripLength |-> STRIP_LENGTH])]

\* as generateStopPositions, with the column loop running one step too far
generateStopPositionsOneMore(g, seed, raws) ==
  LET stopPositions ==
        IF Truthy(seed)
          THEN [c \in 1..(g.cols + 1) |->
                  FloorScaled(createSeededRNG(seed, c), STRIP_LENGTH)]
          ELSE [c \in 1..(g.cols + 1) |->
                  randomInt(0, STRIP_LENGTH - 1, raws[((c - 1) % Len(raws)) + 1])]
  IN [stopPositions |-> stopPositions,
      draws |-> g.cols + 1,
      events |-> logAuditEvent(g, "STOP_POSITIONS_GENERATED",
                   [positions |-> stopPositions, seeded |-> Truthy(seed),
                    stripLength |-> STRIP_LENGTH])]

\* as generateStopPositions, with the seed ignored: every draw is live
generateStopPositionsLiveOnly(g, seed, raws) ==
  LET stopPositions == [c \in 1..g.cols |-> randomInt(0, STRIP_LENGTH - 1, raws[c])]
  IN [stopPositions |-> stopPositions,
      draws |-> g.cols,
      events |-> logAuditEvent(g, "STOP_POSITIONS_GENERATED",
                   [positions |-> stopPositions, seeded |-> Truthy(seed),
                    stripLength |-> STRIP_LENGTH])]

\* generateStopPositions(seed): raws[col] is the entropy word the live
\* source delivers for column col
generateStopPositions(g, seed, raws) ==
  LET stopPositions ==
        IF Truthy(seed)
          THEN [c \in 1..g.cols |->
                  FloorScaled(createSeededRNG(seed, c), STRIP_LENGTH)]
          ELSE [c \in 1..g.cols |-> randomInt(0, STRIP_LENGTH - 1, raws[c])]
  IN [stopPositions |-> stopPositions,
      draws |-> g.cols,
      events |-> logAuditEvent(g, "STOP_POSITIONS_GENERATED",
                   [positions |-> stopPositions, seeded |-> Truthy(seed),
                    stripLength |-> STRIP_LENGTH])]

\* as GridColumn, with the window starting one position late
GridColumnOffByOne(g, strip, stopPos) ==
  [r \in 1..g.rows |-> ArrayGet(strip, JsRem(stopPos + r, Len(strip)))]

\* as GridColumn, with the last row of the window left out
GridColumnDropsLastRow(g, strip, stopPos) ==
  [r \in 1..(g.rows - 1) |->
     ArrayGet(strip, JsRem(stopPos + (r - 1), Len(strip)))]

\* the inner loop of generateInitialGrid: one column of the grid
GridColumn(g, strip, stopPos) ==
  [r \in 1..g.rows |-> ArrayGet(strip, JsRem(stopPos + (r - 1), Len(strip)))]

\* symbolCounts: the symbols that occur in the grid, each with its count
SymbolCounts(grid) ==
  LET cells == UNION {{<<c, r>> : r \in 1..Len(grid[c])} : c \in 1..Len(grid)}
      present == {grid[cell[1]][cell[2]] : cell \in cells}
  IN [s \in present |->
        Cardinality({cell \in cells : grid[cell[1]][cell[2]] = s})]

\* strips[col] is undefined for some col the loops visit: reading its
\* length throws a TypeError
MissingStrip(g, strips) == Len(strips) < g.cols

\* as generateInitialGrid, with the mode left out of the audit record, so
\* that it reads as the default (base game)
generateInitialGridAuditsNoMode(g, freeSpinsMode, seed, raws) ==
  LET strips == getStrips(freeSpinsMode)
      sp == generateStopPositions(g, seed, raws)
      stopPositions == sp.stopPositions
      grid == [c \in 1..g.cols |-> GridColumn(g, strips[c], stopPositions[c])]
      symbolCounts == SymbolCounts(grid)
      stats == [g.statistics EXCEPT
                  !.gridsGenerated = @ + 1,
                  !.symbolsGenerated = @ + g.cols * g.rows,
                  !.lastStopPositions = stopPositions]
  IN IF MissingStrip(g, strips)
       THEN [gen |-> g, draws |-> sp.draws, events |-> sp.events,
             threw |-> TRUE, error |-> "TypeError", value |-> <<>>]
     ELSE
     [gen |-> [g EXCEPT !.statistics = stats],
      draws |-> sp.draws,
      events |-> sp.events \o
                 logAuditEvent(g, "GRID_GENERATED_FROM_STRIPS",
                   [stopPositions |-> stopPositions, stripVersion |-> STRIP_VERSION,
                    freeSpinsMode |-> FALSE, symbolCounts |-> symbolCounts]),
      threw |-> FALSE,
      error |-> "",
      value |-> [grid |-> grid, stopPositions |-> stopPositions,
                 stripVersion |-> STRIP_VERSION, symbolCounts |-> symbolCounts,
                 metadata |-> [generationMethod |-> "reel_strips",
                               freeSpinsMode |-> freeSpinsMode,
                               rngCalls |-> g.cols, seeded |-> Truthy(seed)]]]

\* as generateInitialGrid, with the symbol counter assigned the size of the
\* grid where it should be increased by it
generateInitialGridOverwrites(g, freeSpinsMode, seed, raws) ==
  LET strips == getStrips(freeSpinsMode)
      sp == generateStopPositions(g, seed, raws)
      stopPositions == sp.stopPositions
      grid == [c \in 1..g.cols |-> GridColumn(g, strips[c], stopPositions[c])]
      symbolCounts == SymbolCounts(grid)
      stats == [g.statistics EXCEPT
                  !.gridsGenerated = @ + 1,
                  !.symbolsGenerated = g.cols * g.rows,
                  !.lastStopPositions = stopPositions]
  IN IF MissingStrip(g, strips)
       THEN [gen |-> g, draws |-> sp.draws, events |-> sp.events,
             threw |-> TRUE, error |-> "TypeError", value |-> <<>>]
     ELSE
     [gen |-> [g EXCEPT !.statistics = stats],
      draws |-> sp.draws,
      events |-> sp.events \o
                 logAuditEvent(g, "GRID_GENERATED_FROM_STRIPS",
                   [stopPositions |-> stopPositions, stripVersion |-> STRIP_VERSION,
                    freeSpinsMode |-> freeSpinsMode, symbolCounts |-> symbolCounts]),
      threw |-> FALSE,
      error |-> "",
      value |-> [grid |-> grid, stopPositions |-> stopPositions,
                 stripVersion |-> STRIP_VERSION, symbolCounts |-> symbolCounts,
                 metadata |-> [generationMethod |-> "reel_strips",
                               freeSpinsMode |-> freeSpinsMode,
                               rngCalls |-> g.cols, seeded |-> Truthy(seed)]]]

\* as generateInitialGrid, with the grid event emitted before the stop
\* positions event
generateInitialGridLogsGridFirst(g, freeSpinsMode, seed, raws) ==
  LET strips == getStrips(freeSpinsMode)
      sp == generateStopPositions(g, seed, raws)
      stopPositions == sp.stopPositions
      grid == [c \in 1..g.cols |-> GridColumn(g, strips[c], stopPositions[c])]
      symbolCounts == SymbolCounts(grid)
      stats == [g.statistics EXCEPT
                  !.gridsGenerated = @ + 1,
                  !.symbolsGenerated = @ + g.cols * g.rows,
                  !.lastStopPositions = stopPositions]
  IN IF MissingStrip(g, strips)
       THEN [gen |-> g, draws |-> sp.draws, events |-> sp.events,
             threw |-> TRUE, error |-> "TypeError", value |-> <<>>]
     ELSE
     [gen |-> [g EXCEPT !.statistics = stats],
      draws |-> sp.draws,
      events |-> logAuditEvent(g, "GRID_GENERATED_FROM_STRIPS",
                   [stopPositions |-> stopPositions, stripVersion |-> STRIP_VERSION,
                    freeSpinsMode |-> freeSpinsMode, symbolCounts |-> symbolCounts])
                 \o sp.events,
      threw |-> FALSE,
      error |-> "",
      value |-> [grid |-> grid, stopPositions |-> stopPositions,
                 stripVersion |-> STRIP_VERSION, symbolCounts |-> symbolCounts,
                 metadata |-> [generationMethod |-> "reel_strips",
                               freeSpinsMode |-> freeSpinsMode,
                               rngCalls |-> g.cols, seeded |-> Truthy(seed)]]]

\* generateInitialGrid({freeSpinsMode, seed})
generateInitialGrid(g, freeSpinsMode, seed, raws) ==
  LET strips == getStrips(freeSpinsMode)
      sp == generateStopPositions(g, seed, raws)
      stopPositions == sp.stopPositions
      grid == [c \in 1..g.cols |-> GridColumn(g, strips[c], stopPositions[c])]
      symbolCounts == SymbolCounts(grid)
      stats == [g.statistics EXCEPT
                  !.gridsGenerated = @ + 1,
                  !.symbolsGenerated = @ + g.cols * g.rows,
                  !.lastStopPositions = stopPositions]
  IN IF MissingStrip(g, strips)
       THEN [gen |-> g, draws |-> sp.draws, events |-> sp.events,
             threw |-> TRUE, error |-> "TypeError", value |-> <<>>]
     ELSE
     [gen |-> [g EXCEPT !.statistics = stats],
      draws |-> sp.draws,
      events |-> sp.events \o
                 logAuditEvent(g, "GRID_GENERATED_FROM_STRIPS",
                   [stopPositions |-> stopPositions, stripVersion |-> STRIP_VERSION,
                    freeSpinsMode |-> freeSpinsMode, symbolCounts |-> symbolCounts]),
      threw |-> FALSE,
      error |-> "",
      value |-> [grid |-> grid, stopPositions |-> stopPositions,
                 stripVersion |-> STRIP_VERSION, symbolCounts |-> symbolCounts,
                 metadata |-> [generationMethod |-> "reel_strips",
                               freeSpinsMode |-> freeSpinsMode,
                               rngCalls |-> g.cols, seeded |-> Truthy(seed)]]]

\* rng.emit('audit_event', e) for the events of one call, in order, when the
\* audit sink (a listener of the provider) throws while handling the
\* failAt-th of them (0: the sink does not fail): the events emitted, and
\* whether emit threw
emit(events, failAt) ==
  IF failAt = 0 \/ failAt > Len(events)
    THEN [events |-> events, threw |-> FALSE]
    ELSE [events |-> SubSeq(events, 1, failAt), threw |-> TRUE]

\* generateInitialGrid when the sink may fail.  logAuditEvent does not catch
\* what emit throws, nor do its callers: the call is abandoned at the failing
\* event.  The stop positions are drawn before the first event; the
\* statistics are updated between the first event and the second.
generateInitialGridEmitting(g, freeSpinsMode, seed, raws, failAt) ==
  LET out == generateInitialGrid(g, freeSpinsMode, seed, raws)
      emitted == emit(out.events, failAt)
  IN IF ~emitted.threw THEN out
     ELSE [gen |-> IF failAt = 1 THEN g ELSE out.gen,
           draws |-> out.draws, events |-> emitted.events,
           threw |-> TRUE, error |-> "audit sink failure", value |-> <<>>]

\* a stopPositions argument: an array of numbers, or something that is none
Arr(elems) == [isArray |-> TRUE, elems |-> elems]
NotAnArray == [isArray |-> FALSE, elems |-> <<>>]

\* as ReconstructColumn, without the wraparound
ReconstructColumnNoWrap(g, strip, stopPos) ==
  [r \in 1..g.rows |-> ArrayGet(strip, stopPos + (r - 1))]

\* as ReconstructColumn, reading the stop position the generator remembers
\* from its last grid in place of the one it was given
ReconstructColumnFromLast(g, strip, stopPos) ==
  LET last == g.statistics.lastStopPositions
      from == IF last # Null THEN last[1] ELSE stopPos
  IN [r \in 1..g.rows |-> ArrayGet(strip, JsRem(from + (r - 1), Len(strip)))]

\* the inner loop of reconstructGrid: one column of the grid
ReconstructColumn(g, strip, stopPos) ==
  [r \in 1..g.rows |-> ArrayGet(strip, JsRem(stopPos + (r - 1), Len(strip)))]

\* as ReconstructGuards, with the two checks in the other order
ReconstructGuardsLengthFirst(g, stopPositions, stripVersion) ==
  IF ~stopPositions.isArray \/ Len(stopPositions.elems) # g.cols
    THEN "Invalid stop positions"
  ELSE IF stripVersion # STRIP_VERSION
    THEN "Strip version mismatch"
  ELSE ""

\* the two guards of reconstructGrid: the message of the Error thrown, "" if none
ReconstructGuards(g, stopPositions, stripVersion) ==
  IF stripVersion # STRIP_VERSION
    THEN "Strip version mismatch"
  ELSE IF ~stopPositions.isArray \/ Len(stopPositions.elems) # g.cols
    THEN "Invalid stop positions"
  ELSE ""

\* as reconstructGrid, logging the replay with the event of a generation
reconstructGridLogsGenerated(g, stopPositions, freeSpinsMode, stripVersion) ==
  LET Throw(msg) == [gen |-> g, draws |-> 0, events |-> <<>>,
                     threw |-> TRUE, error |-> msg, value |-> <<>>]
      refused == ReconstructGuards(g, stopPositions, stripVersion)
  IN IF refused # ""
       THEN Throw(refused)
     ELSE IF MissingStrip(g, getStrips(freeSpinsMode))
       THEN Throw("TypeError")
     ELSE
       LET strips == getStrips(freeSpinsMode)
           grid == [c \in 1..g.cols |->
                      ReconstructColumn(g, strips[c], stopPositions.elems[c])]
       IN [gen |-> g, draws |-> 0,
           events |-> logAuditEvent(g, "GRID_GENERATED_FROM_STRIPS",
                        [stopPositions |-> stopPositions.elems,
                         stripVersion |-> stripVersion,
                         freeSpinsMode |-> freeSpinsMode]),
           threw |-> FALSE, error |-> "", value |-> grid]

\* as reconstructGrid, recording the replayed stop positions as the
\* generator's latest ones
reconstructGridRemembers(g, stopPositions, freeSpinsMode, stripVersion) ==
  LET Throw(msg) == [gen |-> g, draws |-> 0, events |-> <<>>,
                     threw |-> TRUE, error |-> msg, value |-> <<>>]
      refused == ReconstructGuards(g, stopPositions, stripVersion)
  IN IF refused # ""
       THEN Throw(refused)
     ELSE IF MissingStrip(g, getStrips(freeSpinsMode))
       THEN Throw("TypeError")
     ELSE
       LET strips == getStrips(freeSpinsMode)
           grid == [c \in 1..g.cols |->
                      ReconstructColumn(g, strips[c], stopPositions.elems[c])]
       IN [gen |-> [g EXCEPT !.statistics.lastStopPositions = stopPositions.elems],
           draws |-> 0,
           events |-> logAuditEvent(g, "GRID_RECONSTRUCTED",
                        [stopPositions |-> stopPositions.elems,
                         stripVersion |-> stripVersion,
                         freeSpinsMode |-> freeSpinsMode]),
           threw |-> FALSE, error |-> "", value |-> grid]

\* reconstructGrid(stopPositions, freeSpinsMode, stripVersion)
reconstructGrid(g, stopPositions, freeSpinsMode, stripVersion) ==
  LET Throw(msg) == [gen |-> g, draws |-> 0, events |-> <<>>,
                     threw |-> TRUE, error |-> msg, value |-> <<>>]
      refused == ReconstructGuards(g, stopPositions, stripVersion)
  IN IF refused # ""
       THEN Throw(refused)
     ELSE IF MissingStrip(g, getStrips(freeSpinsMode))
       THEN Throw("TypeError")
     ELSE
       LET strips == getStrips(freeSpinsMode)
           grid == [c \in 1..g.cols |->
                      ReconstructColumn(g, strips[c], stopPositions.elems[c])]
       IN [gen |-> g, draws |-> 0,
           events |-> logAuditEvent(g, "GRID_RECONSTRUCTED",
                        [stopPositions |-> stopPositions.elems,
                         stripVersion |-> stripVersion,
                         freeSpinsMode |-> freeSpinsMode]),
           threw |-> FALSE, error |-> "", value |-> grid]

\* as getStrip, with the upper bound of the check inclusive: column 6 reads
\* past the table
getStripInclusiveBound(column, freeSpinsMode) ==
  LET strips == getStrips(freeSpinsMode)
  IN IF column < 0 \/ column > Len(strips)
       THEN [threw |-> TRUE, error |-> "Invalid column index", value |-> <<>>]
       ELSE [threw |-> FALSE, error |-> "", value |-> ArrayGet(strips, column)]

\* getStrip(column, freeSpinsMode) of reelStrips.js
getStrip(column, freeSpinsMode) ==
  LET strips == getStrips(freeSpinsMode)
  IN IF column < 0 \/ column >= Len(strips)
       THEN [threw |-> TRUE, error |-> "Invalid column index", value |-> <<>>]
       ELSE [threw |-> FALSE, error |-> "", value |-> strips[column + 1]]

\* as generateReplacementSymbol, reading the symbol one position past the
\* one it draws and reports
generateReplacementSymbolReadsNext(g, column, freeSpinsMode, seed, raw) ==
  LET Throw(msg) == [gen |-> g, draws |-> 0, events |-> <<>>,
                     threw |-> TRUE, error |-> msg, value |-> <<>>]
      looked == getStrip(column, freeSpinsMode)
  IN IF column < 0 \/ column >= g.cols THEN Throw("Invalid column index")
     ELSE IF looked.threw THEN Throw(looked.error)
     ELSE
       LET strip == looked.value
           stripPosition ==
             IF Truthy(seed)
               THEN FloorScaled(createSeededRNG(seed, 1), Len(strip))
               ELSE randomInt(0, Len(strip) - 1, raw)
           symbol == ArrayGet(strip, stripPosition + 1)
       IN [gen |-> [g EXCEPT !.statistics.replacementSymbolsGenerated = @ + 1],
           draws |-> 1,
           events |-> logAuditEvent(g, "REPLACEMENT_SYMBOL_GENERATED",
                        [column |-> column, stripPosition |-> stripPosition,
                         symbol |-> symbol, freeSpinsMode |-> freeSpinsMode,
                         stripVersion |-> STRIP_VERSION]),
           threw |-> FALSE, error |-> "",
           value |-> [symbol |-> symbol, stripPosition |-> stripPosition,
                      column |-> column, stripVersion |-> STRIP_VERSION,
                      freeSpinsMode |-> freeSpinsMode]]

\* as generateReplacementSymbol, with the column checked only after the
\* draw is made and counted
generateReplacementSymbolChecksLate(g, column, freeSpinsMode, seed, raw) ==
  LET Throw(msg) == [gen |-> g, draws |-> 0, events |-> <<>>,
                     threw |-> TRUE, error |-> msg, value |-> <<>>]
      looked == getStrip(column, freeSpinsMode)
  IN IF column < 0 \/ column >= g.cols \/ looked.threw
       THEN [gen |-> [g EXCEPT !.statistics.replacementSymbolsGenerated = @ + 1],
             draws |-> 1, events |-> <<>>, threw |-> TRUE,
             error |-> "Invalid column index", value |-> <<>>]
     ELSE
       LET strip == looked.value
           stripPosition ==
             IF Truthy(seed)
               THEN FloorScaled(createSeededRNG(seed, 1), Len(strip))
               ELSE randomInt(0, Len(strip) - 1, raw)
           symbol == ArrayGet(strip, stripPosition)
       IN [gen |-> [g EXCEPT !.statistics.replacementSymbolsGenerated = @ + 1],
           draws |-> 1,
           events |-> logAuditEvent(g, "REPLACEMENT_SYMBOL_GENERATED",
                        [column |-> column, stripPosition |-> stripPosition,
                         symbol |-> symbol, freeSpinsMode |-> freeSpinsMode,
                         stripVersion |-> STRIP_VERSION]),
           threw |-> FALSE, error |-> "",
           value |-> [symbol |-> symbol, stripPosition |-> stripPosition,
                      column |-> column, stripVersion |-> STRIP_VERSION,
                      freeSpinsMode |-> freeSpinsMode]]

\* generateReplacementSymbol(column, freeSpinsMode, seed): raw is the entropy
\* word the live source delivers
generateReplacementSymbol(g, column, freeSpinsMode, seed, raw) ==
  LET Throw(msg) == [gen |-> g, draws |-> 0, events |-> <<>>,
                     threw |-> TRUE, error |-> msg, value |-> <<>>]
      looked == getStrip(column, freeSpinsMode)
  IN IF column < 0 \/ column >= g.cols THEN Throw("Invalid column index")
     ELSE IF looked.threw THEN Throw(looked.error)
     ELSE
       LET strip == looked.value
           stripPosition ==
             IF Truthy(seed)
               THEN FloorScaled(createSeededRNG(seed, 1), Len(strip))
               ELSE randomInt(0, Len(strip) - 1, raw)
           symbol == ArrayGet(strip, stripPosition)
       IN [gen |-> [g EXCEPT !.statistics.replacementSymbolsGenerated = @ + 1],
           draws |-> 1,
           events |-> logAuditEvent(g, "REPLACEMENT_SYMBOL_GENERATED",
                        [column |-> column, stripPosition |-> stripPosition,
                         symbol |-> symbol, freeSpinsMode |-> freeSpinsMode,
                         stripVersion |-> STRIP_VERSION]),
           threw |-> FALSE, error |-> "",
           value |-> [symbol |-> symbol, stripPosition |-> stripPosition,
                      column |-> column, stripVersion |-> STRIP_VERSION,
                      freeSpinsMode |-> freeSpinsMode]]

\* String(n) for an integer, as character codes
RECURSIVE DecimalChars(_)
DecimalChars(n) ==
  IF n < 0 THEN <<45>> \o DecimalChars(0 - n)
  ELSE IF n < 10 THEN <<48 + n>>
  ELSE DecimalChars(n \div 10) \o <<48 + (n % 10)>>

\* `${cascadeSeed}_${col}_${pos.row}`
PositionSeed(cascadeSeed, col, row) ==
  cascadeSeed \o <<95>> \o DecimalChars(col) \o <<95>> \o DecimalChars(row)

RECURSIVE SortAscending(_)
SortAscending(S) ==
  IF S = {} THEN <<>>
  ELSE LET m == CHOOSE x \in S : \A y \in S : x <= y
       IN <<m>> \o SortAscending(S \ {m})

RECURSIVE FirstOccurrences(_, _)
FirstOccurrences(keys, seen) ==
  IF keys = <<>> THEN <<>>
  ELSE IF Head(keys) \in seen THEN FirstOccurrences(Tail(keys), seen)
  ELSE <<Head(keys)>> \o FirstOccurrences(Tail(keys), seen \cup {Head(keys)})

\* Object.entries(byColumn): array-index keys in ascending order, then the
\* other keys (negative columns) in the order they were first inserted
ColumnOrder(positions) ==
  LET cols == [k \in 1..Len(positions) |-> positions[k].col]
      IsOther(c) == c < 0
  IN SortAscending({c \in {cols[k] : k \in 1..Len(cols)} : c >= 0}) \o
     FirstOccurrences(SelectSeq(cols, IsOther), {})

\* as VisitOrder, with a cell that is requested twice visited once
VisitOrderDistinct(positions) ==
  LET order == ColumnOrder(positions)
      cells == ConcatAll([k \in 1..Len(order) |->
                            LET InColumn(pos) == pos.col = order[k]
                            IN SelectSeq(positions, InColumn)])
      IsFirst(k) == \A j \in 1..(k - 1) : cells[j] # cells[k]
      firsts == SelectSeq([k \in 1..Len(cells) |-> k], IsFirst)
  IN [n \in 1..Len(firsts) |-> cells[firsts[n]]]

\* the cells in the order the two nested loops visit them
VisitOrder(positions) ==
  LET order == ColumnOrder(positions)
  IN ConcatAll([k \in 1..Len(order) |->
                  LET InColumn(pos) == pos.col = order[k]
                  IN SelectSeq(positions, InColumn)])

\* as generateReplacementSymbols, with one seeded stream of the cascade seed
\* shared by the cells of the batch in place of a stream per cell
generateReplacementSymbolsSharedStream(g, positions, freeSpinsMode, cascadeSeed, raws) ==
  LET visit == VisitOrder(positions)
      Bad(k) == getStrip(visit[k].col, freeSpinsMode).threw
      firstBad == IF \E k \in 1..Len(visit) : Bad(k)
                    THEN CHOOSE k \in 1..Len(visit) :
                           Bad(k) /\ \A j \in 1..(k - 1) : ~Bad(j)
                    ELSE Len(visit) + 1
      threw == firstBad <= Len(visit)
      replacements ==
        [k \in 1..(firstBad - 1) |->
           LET pos == visit[k]
               strip == getStrip(pos.col, freeSpinsMode).value
               positionSeed == IF Truthy(cascadeSeed)
                                 THEN PositionSeed(cascadeSeed, pos.col, pos.row)
                                 ELSE NoSeed
               stripPosition ==
                 IF Truthy(positionSeed)
                   THEN FloorScaled(createSeededRNG(cascadeSeed, k), Len(strip))
                   ELSE randomInt(0, Len(strip) - 1, raws[k])
           IN [col |-> pos.col, row |-> pos.row,
               symbol |-> ArrayGet(strip, stripPosition),
               stripPosition |-> stripPosition, stripVersion |-> STRIP_VERSION]]
  IN [gen |-> [g EXCEPT !.statistics.replacementSymbolsGenerated =
                          @ + Len(replacements)],
      draws |-> Len(replacements),
      events |-> IF threw THEN <<>>
                 ELSE logAuditEvent(g, "REPLACEMENT_SYMBOLS_BATCH_GENERATED",
                        [count |-> Len(replacements), freeSpinsMode |-> freeSpinsMode,
                         stripVersion |-> STRIP_VERSION]),
      threw |-> threw,
      error |-> IF threw THEN "Invalid column index" ELSE "",
      value |-> IF threw THEN <<>> ELSE replacements]

\* as generateReplacementSymbols, with the batch event counting the columns
\* served where it should count the draws
generateReplacementSymbolsCountsColumns(g, positions, freeSpinsMode, cascadeSeed, raws) ==
  LET visit == VisitOrder(positions)
      Bad(k) == getStrip(visit[k].col, freeSpinsMode).threw
      firstBad == IF \E k \in 1..Len(visit) : Bad(k)
                    THEN CHOOSE k \in 1..Len(visit) :
                           Bad(k) /\ \A j \in 1..(k - 1) : ~Bad(j)
                    ELSE Len(visit) + 1
      threw == firstBad <= Len(visit)
      replacements ==
        [k \in 1..(firstBad - 1) |->
           LET pos == visit[k]
               strip == getStrip(pos.col, freeSpinsMode).value
               positionSeed == IF Truthy(cascadeSeed)
                                 THEN PositionSeed(cascadeSeed, pos.col, pos.row)
                                 ELSE NoSeed
               stripPosition ==
                 IF Truthy(positionSeed)
                   THEN FloorScaled(createSeededRNG(positionSeed, 1), Len(strip))
                   ELSE randomInt(0, Len(strip) - 1, raws[k])
           IN [col |-> pos.col, row |-> pos.row,
               symbol |-> ArrayGet(strip, stripPosition),
               stripPosition |-> stripPosition, stripVersion |-> STRIP_VERSION]]
  IN [gen |-> [g EXCEPT !.statistics.replacementSymbolsGenerated =
                          @ + Len(replacements)],
      draws |-> Len(replacements),
      events |-> IF threw THEN <<>>
                 ELSE logAuditEvent(g, "REPLACEMENT_SYMBOLS_BATCH_GENERATED",
                        [count |-> Len(ColumnOrder(positions)), freeSpinsMode |-> freeSpinsMode,
                         stripVersion |-> STRIP_VERSION]),
      threw |-> threw,
      error |-> IF threw THEN "Invalid column index" ELSE "",
      value |-> IF threw THEN <<>> ELSE replacements]

\* generateReplacementSymbols(positions, freeSpinsMode, cascadeSeed): raws[k]
\* is the entropy word of the k-th live draw.  getStrip throws at the first
\* column outside the table, after the columns before it were served.
generateReplacementSymbols(g, positions, freeSpinsMode, cascadeSeed, raws) ==
  LET visit == VisitOrder(positions)
      Bad(k) == getStrip(visit[k].col, freeSpinsMode).threw
      firstBad == IF \E k \in 1..Len(visit) : Bad(k)
                    THEN CHOOSE k \in 1..Len(visit) :
                           Bad(k) /\ \A j \in 1..(k - 1) : ~Bad(j)
                    ELSE Len(visit) + 1
      threw == firstBad <= Len(visit)
      replacements ==
        [k \in 1..(firstBad - 1) |->
           LET pos == visit[k]
               strip == getStrip(pos.col, freeSpinsMode).value
               positionSeed == IF Truthy(cascadeSeed)
                                 THEN PositionSeed(cascadeSeed, pos.col, pos.row)
                                 ELSE NoSeed
               stripPosition ==
                 IF Truthy(positionSeed)
                   THEN FloorScaled(createSeededRNG(positionSeed, 1), Len(strip))
                   ELSE randomInt(0, Len(strip) - 1, raws[k])
           IN [col |-> pos.col, row |-> pos.row,
               symbol |-> ArrayGet(strip, stripPosition),
               stripPosition |-> stripPosition, stripVersion |-> STRIP_VERSION]]
  IN [gen |-> [g EXCEPT !.statistics.replacementSymbolsGenerated =
                          @ + Len(replacements)],
      draws |-> Len(replacements),
      events |-> IF threw THEN <<>>
                 ELSE logAuditEvent(g, "REPLACEMENT_SYMBOLS_BATCH_GENERATED",
                        [count |-> Len(replacements), freeSpinsMode |-> freeSpinsMode,
                         stripVersion |-> STRIP_VERSION]),
      threw |-> threw,
      error |-> IF threw THEN "Invalid column index" ELSE "",
      value |-> IF threw THEN <<>> ELSE replacements]

\* getStripStatistics(freeSpinsMode): per column, the count of every symbol
\* that occurs on the strip and its share of the strip in hundredths of a
\* percent, as toFixed(2) rounds it
getStripStatistics(freeSpinsMode) ==
  LET strips == getStrips(freeSpinsMode)
      Count(strip, symbol) ==
        Cardinality({k \in 1..Len(strip) : strip[k] = symbol})
  IN [mode |-> IF freeSpinsMode THEN "free_spins" ELSE "base_game",
      stripVersion |-> STRIP_VERSION,
      stripLength |-> STRIP_LENGTH,
      columns |->
        [c \in 1..Len(strips) |->
           LET strip == strips[c]
               present == {strip[k] : k \in 1..Len(strip)}
           IN [column |-> c - 1,
               length |-> Len(strip),
               symbolCounts |-> [symbol \in present |-> Count(strip, symbol)],
               symbolPercentages |->
                 [symbol \in present |->
                    (2 * 10000 * Count(strip, symbol) + Len(strip))
                      \div (2 * Len(strip))]]]]

\* getStatistics()
getStatistics(g) ==
  [gridsGenerated |-> g.statistics.gridsGenerated,
   symbolsGenerated |-> g.statistics.symbolsGenerated,
   replacementSymbolsGenerated |-> g.statistics.replacementSymbolsGenerated,
   lastStopPositions |-> g.statistics.lastStopPositions,
   stripVersion |-> STRIP_VERSION, stripLength |-> STRIP_LENGTH]

\* resetStatistics()
resetStatistics(g) ==
  [gen |-> [g EXCEPT !.statistics = NewStatistics],
   draws |-> 0,
   events |-> logAuditEvent(g, "REEL_STRIP_GENERATOR_STATS_RESET",
                [generator |-> "ReelStripGenerator"]),
   threw |-> FALSE, error |-> "", value |-> <<>>]

\* ---------------------------------------------------------------------
\* Bounds and the inputs the operations are called with
\* ---------------------------------------------------------------------

\* generators constructed
MaxInstances == 1
\* a replay of the latest grid starts only up to this many events emitted
MaxAuditReplay == 3
\* generators constructed when sessions share and create generators
MaxSessionInstances == 2
\* sessions generate a grid only below this value of statistics.gridsGenerated
MaxSessionGrids == 2
\* sessions draw replacements only below this value of
\* statistics.replacementSymbolsGenerated
MaxSessionReplacements == 2
\* a call that draws entropy starts only below this many draws served
MaxRngCalls == 7
\* a call that emits audit events starts only below this many events emitted
MaxAudit == 2
\* a grid is generated only below this value of statistics.gridsGenerated
MaxGrids == 1
\* replacements are drawn only below this value of
\* statistics.replacementSymbolsGenerated
MaxReplacements == 1

RowsOptions == {0, 3}
ColsOptions == {0}
AuditOptions == {"undefined", "false"}

ConstructorOptions ==
  [rows : RowsOptions, cols : ColsOptions, auditLogging : AuditOptions]

\* "A", and no seed
Seeds == {NoSeed, <<65>>}

\* entropy words of the live source for one grid, one word per column
LiveGridDraws == {<<119, 0, 0, 0, 0, 5>>, <<0, 238, 357, 116, 5, 60>>}

\* entropy words of the live source for replacement draws
LiveDraws == {239}

\* entropy words of the live source for a batch, one word per draw
LiveBatchDraws == {<<239, 5, 118>>}

Replay(stopPositions, freeSpinsMode, stripVersion) ==
  [stopPositions |-> stopPositions, freeSpinsMode |-> freeSpinsMode,
   stripVersion |-> stripVersion]

\* arguments of reconstructGrid: malformed, out of range and well-formed
\* stop positions, under the current and under an older strip version
ReplayInputs ==
  {Replay(NotAnArray, FALSE, STRIP_VERSION),
   Replay(Arr(<<0, 0, 0, 0, 0>>), TRUE, STRIP_VERSION),
   Replay(Arr(<<0, 0, 0, 0, 0, 0, 0>>), FALSE, STRIP_VERSION),
   Replay(Arr(<<-1, 0, 0, 0, 0, 0>>), FALSE, STRIP_VERSION),
   Replay(Arr(<<0, 0, 0, 0, 0, -1>>), TRUE, STRIP_VERSION),
   Replay(Arr(<<120, 0, 0, 0, 0, 0>>), FALSE, STRIP_VERSION),
   Replay(Arr(<<0, 0, 0, 0, 0, 1000>>), TRUE, STRIP_VERSION),
   Replay(Arr(<<119, 118, 117, 116, 5, 60>>), FALSE, STRIP_VERSION),
   Replay(Arr(<<119, 118, 117, 116, 5, 60>>), TRUE, STRIP_VERSION),
   Replay(NotAnArray, TRUE, "0.0.1"),
   Replay(Arr(<<0, 0, 0, 0, 0>>), FALSE, "0.0.1"),
   Replay(Arr(<<-1, 0, 0, 0, 0, 0>>), FALSE, "0.0.1"),
   Replay(Arr(<<119, 118, 117, 116, 5, 60>>), FALSE, "0.0.1"),
   Replay(Arr(<<119, 118, 117, 116, 5, 60>>), TRUE, "0.0.1")}

\* the replay of the generator's latest grid, in either mode
ReplayOfLast(g) ==
  IF g.statistics.lastStopPositions = Null THEN {}
  ELSE {Replay(Arr(g.statistics.lastStopPositions), freeSpinsMode, STRIP_VERSION) :
          freeSpinsMode \in BOOLEAN}

ColumnInputs == {-1, 5, 6}

\* columns looked up in the registry
LookupColumns == {-1, 0, 1, 2, 3, 4, 5, 6, 7}

\* the event of a grid generation at which the audit sink throws; 0: at none
SinkFailures == {0, 1, 2}

Cell(c, r) == [col |-> c, row |-> r]

Edit(kind, free, col, n) == [kind |-> kind, free |-> free, col |-> col, n |-> n]

\* departures from the shipped tables, for either mode
AtomicEdits ==
  UNION {{Edit("dropStrip", free, 0, 0), Edit("dupStrip", free, 0, 0),
          Edit("noStrips", free, 0, 0), Edit("truncate", free, 5, 0),
          Edit("append", free, 0, 0), Edit("badSymbol", free, 0, 0),
          Edit("badSymbol", free, 3, 119), Edit("scatters", free, 2, 3),
          Edit("scatters", free, 2, 4), Edit("scatters", free, 2, 7),
          Edit("scatters", free, 2, 8)} : free \in BOOLEAN}

EditInputs ==
  {<<>>} \cup {<<e>> : e \in AtomicEdits}
         \cup {<<e1, e2>> : e1 \in AtomicEdits, e2 \in AtomicEdits}

CellInputs ==
  {<<>>,
   <<Cell(5, 1), Cell(0, 0), Cell(5, 1)>>,
   <<Cell(0, 0), Cell(7, 0)>>,
   <<Cell(-1, 0), Cell(0, 0)>>}

\* ---------------------------------------------------------------------
\* The state machine
\* ---------------------------------------------------------------------

NoCall == [op |-> "none", gen |-> 0, args |-> <<>>, threw |-> FALSE,
           error |-> "", value |-> <<>>]

Init ==
  /\ edits = <<>>
  /\ gens = <<>>
  /\ instance = 0
  /\ rngCalls = 0
  /\ auditLog = <<>>
  /\ ret = NoCall

\* the effects out of a method call on generator i
Effects(i, op, args, out) ==
  /\ gens' = [gens EXCEPT ![i] = out.gen]
  /\ rngCalls' = rngCalls + out.draws
  /\ auditLog' = auditLog \o out.events
  /\ ret' = [op |-> op, gen |-> i, args |-> args, threw |-> out.threw,
             error |-> out.error, value |-> out.value]
  /\ UNCHANGED <<edits, instance>>

\* a method call on generator i whose effects are out
Commit(i, op, args, out) ==
  /\ out.draws > 0 => rngCalls < MaxRngCalls
  /\ out.events # <<>> => Len(auditLog) < MaxAudit
  /\ Effects(i, op, args, out)

\* the effects of new ReelStripGenerator(options): the object is stored as
\* gens[Len(gens) + 1]
Constructed(op, options, single) ==
  LET made == Constructor(options)
  IN /\ made.events # <<>> => Len(auditLog) < MaxAudit
     /\ gens' = Append(gens, made.gen)
     /\ instance' = IF single THEN Len(gens) + 1 ELSE instance
     /\ auditLog' = auditLog \o made.events
     /\ ret' = [op |-> op, gen |-> Len(gens) + 1, args |-> options,
                threw |-> FALSE, error |-> "", value |-> Len(gens) + 1]
     /\ UNCHANGED <<edits, rngCalls>>

\* new ReelStripGenerator(options)
Construct(op, options, single) ==
  /\ Len(gens) < MaxInstances
  /\ Constructed(op, options, single)

GetReelStripGenerator ==
  \E options \in ConstructorOptions :
    IF instance = 0
      THEN Construct("getReelStripGenerator", options, TRUE)
      ELSE /\ ret' = [op |-> "getReelStripGenerator", gen |-> instance,
                      args |-> options, threw |-> FALSE, error |-> "",
                      value |-> instance]
           /\ UNCHANGED <<edits, gens, instance, rngCalls, auditLog>>

CreateReelStripGenerator ==
  \E options \in ConstructorOptions :
    Construct("createReelStripGenerator", options, FALSE)

GenerateInitialGrid ==
  \E i \in 1..Len(gens), freeSpinsMode \in BOOLEAN, seed \in Seeds :
    \E raws \in LiveGridDraws, failAt \in SinkFailures :
      /\ gens[i].statistics.gridsGenerated < MaxGrids
      /\ Commit(i, "generateInitialGrid",
                [freeSpinsMode |-> freeSpinsMode, seed |-> seed],
                generateInitialGridEmitting(gens[i], freeSpinsMode, seed, raws,
                                            failAt))

GenerateReplacementSymbol ==
  \E i \in 1..Len(gens), column \in ColumnInputs, freeSpinsMode \in BOOLEAN,
     seed \in Seeds :
    \E raw \in LiveDraws :
      /\ gens[i].statistics.replacementSymbolsGenerated < MaxReplacements
      /\ Commit(i, "generateReplacementSymbol",
                [column |-> column, freeSpinsMode |-> freeSpinsMode, seed |-> seed],
                generateReplacementSymbol(gens[i], column, freeSpinsMode, seed, raw))

GenerateReplacementSymbols ==
  \E i \in 1..Len(gens), positions \in CellInputs, freeSpinsMode \in BOOLEAN,
     cascadeSeed \in Seeds :
    \E raws \in LiveBatchDraws :
      /\ gens[i].statistics.replacementSymbolsGenerated < MaxReplacements
      /\ Commit(i, "generateReplacementSymbols",
                [positions |-> positions, freeSpinsMode |-> freeSpinsMode,
                 cascadeSeed |-> cascadeSeed],
                generateReplacementSymbols(gens[i], positions, freeSpinsMode,
                                           cascadeSeed, raws))

ReconstructGrid ==
  \E i \in 1..Len(gens) :
    \E args \in ReplayInputs \cup ReplayOfLast(gens[i]) :
      Commit(i, "reconstructGrid", args,
             reconstructGrid(gens[i], args.stopPositions, args.freeSpinsMode,
                             args.stripVersion))

GetStatistics ==
  \E i \in 1..Len(gens) :
    /\ ret' = [op |-> "getStatistics", gen |-> i, args |-> <<>>, threw |-> FALSE,
               error |-> "", value |-> getStatistics(gens[i])]
    /\ UNCHANGED <<edits, gens, instance, rngCalls, auditLog>>

ResetStatistics ==
  \E i \in 1..Len(gens) :
    Commit(i, "resetStatistics", <<>>, resetStatistics(gens[i]))

GetStrip ==
  \E column \in LookupColumns, freeSpinsMode \in BOOLEAN :
    LET looked == getStrip(column, freeSpinsMode)
    IN /\ ret' = [op |-> "getStrip", gen |-> 0,
                  args |-> [column |-> column, freeSpinsMode |-> freeSpinsMode],
                  threw |-> looked.threw, error |-> looked.error,
                  value |-> looked.value]
       /\ UNCHANGED <<edits, gens, instance, rngCalls, auditLog>>

ValidateStrips ==
  /\ ret' = [op |-> "validateStrips", gen |-> 0, args |-> <<>>, threw |-> FALSE,
             error |-> "", value |-> validateStrips]
  /\ UNCHANGED <<edits, gens, instance, rngCalls, auditLog>>

Next ==
  \/ GetReelStripGenerator
  \/ CreateReelStripGenerator
  \/ GenerateInitialGrid
  \/ GenerateReplacementSymbol
  \/ GenerateReplacementSymbols
  \/ ReconstructGrid
  \/ GetStatistics
  \/ ResetStatistics
  \/ GetStrip

Spec == Init /\ [][Next]_vars

\* validateStrips() at load, over the shipped tables and over edited ones;
\* no generator is constructed
InitValidate ==
  /\ edits \in EditInputs
  /\ gens = <<>>
  /\ instance = 0
  /\ rngCalls = 0
  /\ auditLog = <<>>
  /\ ret = NoCall

GetStripStatistics ==
  \E freeSpinsMode \in BOOLEAN :
    /\ ret' = [op |-> "getStripStatistics", gen |-> 0,
               args |-> [freeSpinsMode |-> freeSpinsMode], threw |-> FALSE,
               error |-> "", value |-> getStripStatistics(freeSpinsMode)]
    /\ UNCHANGED <<edits, gens, instance, rngCalls, auditLog>>

NextValidate ==
  \/ ValidateStrips
  \/ GetStripStatistics

SpecValidate == InitValidate /\ [][NextValidate]_vars

\* reconstructGrid called with the stop positions of the generator's latest
\* grid, as an auditor replays a logged outcome
ReplayLastGrid ==
  \E i \in 1..Len(gens) :
    \E args \in ReplayOfLast(gens[i]) :
      /\ Len(auditLog) <= MaxAuditReplay
      /\ Effects(i, "reconstructGrid", args,
                 reconstructGrid(gens[i], args.stopPositions, args.freeSpinsMode,
                                 args.stripVersion))

NextReplay ==
  \/ Next
  \/ ReplayLastGrid

SpecReplay == Init /\ [][NextReplay]_vars

\* what the sessions pass: constructor options (the defaults without audit
\* logging, and 3 rows with it), a valid and an invalid column, and a
\* batch that is served and one that names a column outside the table
SessionOptions ==
  {[rows |-> 0, cols |-> 0, auditLogging |-> "false"],
   [rows |-> 3, cols |-> 0, auditLogging |-> "undefined"]}

SessionColumns == {5, 6}

SessionCells ==
  {<<Cell(5, 1), Cell(0, 0), Cell(5, 1)>>,
   <<Cell(0, 0), Cell(7, 0)>>}

\* Sessions that obtain generators through getReelStripGenerator and
\* createReelStripGenerator and call them in any order.  Every method is
\* synchronous and runs to completion on the one thread of the process, so
\* the calls of the sessions interleave as whole calls.
\* as SessionGetGenerator, constructing a generator on every call
SessionGetGeneratorAlwaysNew ==
  \E options \in SessionOptions :
    /\ Len(gens) < MaxSessionInstances
    /\ Constructed("getReelStripGenerator", options, TRUE)

SessionGetGenerator ==
  \E options \in SessionOptions :
    IF instance = 0
      THEN /\ Len(gens) < MaxSessionInstances
           /\ Constructed("getReelStripGenerator", options, TRUE)
      ELSE /\ ret' = [op |-> "getReelStripGenerator", gen |-> instance,
                      args |-> options, threw |-> FALSE, error |-> "",
                      value |-> instance]
           /\ UNCHANGED <<edits, gens, instance, rngCalls, auditLog>>

SessionCreateGenerator ==
  \E options \in SessionOptions :
    /\ Len(gens) < MaxSessionInstances
    /\ Constructed("createReelStripGenerator", options, FALSE)

SessionGrid ==
  \E i \in 1..Len(gens) :
    \E raws \in LiveGridDraws, failAt \in SinkFailures :
      /\ gens[i].statistics.gridsGenerated < MaxSessionGrids
      /\ Commit(i, "generateInitialGrid",
                [freeSpinsMode |-> FALSE, seed |-> NoSeed],
                generateInitialGridEmitting(gens[i], FALSE, NoSeed, raws, failAt))

SessionReplacement ==
  \E i \in 1..Len(gens), column \in SessionColumns :
    \E raw \in LiveDraws :
      /\ gens[i].statistics.replacementSymbolsGenerated < MaxSessionReplacements
      /\ Commit(i, "generateReplacementSymbol",
                [column |-> column, freeSpinsMode |-> FALSE, seed |-> NoSeed],
                generateReplacementSymbol(gens[i], column, FALSE, NoSeed, raw))

SessionReplacements ==
  \E i \in 1..Len(gens), positions \in SessionCells :
    \E raws \in LiveBatchDraws :
      /\ gens[i].statistics.replacementSymbolsGenerated < MaxSessionReplacements
      /\ Commit(i, "generateReplacementSymbols",
                [positions |-> positions, freeSpinsMode |-> FALSE,
                 cascadeSeed |-> NoSeed],
                generateReplacementSymbols(gens[i], positions, FALSE, NoSeed, raws))

NextSessions ==
  \/ SessionGetGenerator
  \/ SessionCreateGenerator
  \/ SessionGrid
  \/ SessionReplacement
  \/ SessionReplacements
  \/ GetStatistics
  \/ ResetStatistics

SpecSessions == Init /\ [][NextSessions]_vars

\* tables at startup: the shipped ones, and tables with a structural defect
\* (an unknown symbol, a strip of 119, a table of 5 strips) or with a
\* scatter count outside the band
StartupEdits ==
  {<<>>,
   <<Edit("badSymbol", FALSE, 0, 0)>>,
   <<Edit("truncate", TRUE, 5, 0)>>,
   <<Edit("dropStrip", FALSE, 0, 0)>>,
   <<Edit("scatters", FALSE, 2, 3)>>}

\* a process that loads the registry, may call validateStrips(), and
\* creates a generator and serves from it
InitStartup ==
  /\ edits \in StartupEdits
  /\ gens = <<>>
  /\ instance = 0
  /\ rngCalls = 0
  /\ auditLog = <<>>
  /\ ret = NoCall

NextStartup ==
  \/ ValidateStrips
  \/ CreateReelStripGenerator
  \/ GenerateInitialGrid
  \/ GenerateReplacementSymbol
  \/ GenerateReplacementSymbols
  \/ ReconstructGrid

SpecStartup == InitStartup /\ [][NextStartup]_vars

\* ---------------------------------------------------------------------
\* Properties
\* ---------------------------------------------------------------------

Generated == ret.op = "generateInitialGrid" /\ ~ret.threw
Reconstructed == ret.op = "reconstructGrid"
Validated == ret.op = "validateStrips"

\* a generator of the given dimensions on which nothing was ever called
Fresh(rows, cols) ==
  Constructor([rows |-> rows, cols |-> cols, auditLogging |-> "false"]).gen

\* C1: round trip.  Whatever the mode and the seed (or none), reconstructGrid
\* called with the stopPositions and stripVersion that generateInitialGrid
\* returned, and the same mode, returns the grid generateInitialGrid returned,
\* cell for cell.
RoundTripIdentity ==
  Generated =>
    LET g == gens[ret.gen]
        replay == reconstructGrid(g, Arr(ret.value.stopPositions),
                                  ret.args.freeSpinsMode, ret.value.stripVersion)
    IN /\ ~replay.threw
       /\ Len(replay.value) = g.cols
       /\ \A c \in 1..g.cols :
            /\ Len(replay.value[c]) = g.rows
            /\ \A r \in 1..g.rows : replay.value[c][r] = ret.value.grid[c][r]

\* a seeded 6 x 5 grid whose window wraps in some column
RoundTripWitness ==
  /\ Generated
  /\ Truthy(ret.args.seed)
  /\ gens[ret.gen].rows = 5
  /\ gens[ret.gen].cols = 6
  /\ \E c \in 1..6 : ret.value.stopPositions[c] > STRIP_LENGTH - 5

\* C2: entropy budget.  Every generateInitialGrid call draws exactly one
\* entropy value per column, 6 in all, whatever the mode, the number of rows
\* and the seed: the provider's call counter grows by the column count.
EntropyBudget ==
  [][ret'.op = "generateInitialGrid" =>
       /\ rngCalls' = rngCalls + 6
       /\ rngCalls' = rngCalls + gens'[ret'.gen].cols]_vars

\* a seeded grid of 3 rows was generated from 6 draws
EntropyBudgetWitness ==
  /\ Generated
  /\ Truthy(ret.args.seed)
  /\ gens[ret.gen].rows = 3
  /\ rngCalls = 6

\* C3: indexing rule.  grid[c][r] = strip_c[(stopPositions[c] + r) mod 120]
\* of the mode's strips for every column c and row r, wraparound included;
\* stop position 0 on base column 0 shows time, time, space, space, mind.
IndexingRule ==
  Generated =>
    LET g == gens[ret.gen]
        strips == IF ret.args.freeSpinsMode THEN FREE_SPINS_STRIPS
                                            ELSE BASE_GAME_STRIPS
        stop == ret.value.stopPositions
        grid == ret.value.grid
    IN /\ Len(grid) = 6
       /\ \A c \in 0..5 :
            /\ Len(grid[c + 1]) = g.rows
            /\ \A r \in 0..(g.rows - 1) :
                 grid[c + 1][r + 1] = strips[c + 1][((stop[c + 1] + r) % 120) + 1]
       /\ (stop[1] = 0 /\ ~ret.args.freeSpinsMode /\ g.rows = 5 =>
             grid[1] = <<"time_gem", "time_gem", "space_gem", "space_gem", "mind_gem">>)

\* a base-mode 6 x 5 grid with stop position 0 in column 0 and wrapping
\* windows in the columns that stop at 118, 117 and 116
IndexingRuleWitness ==
  /\ Generated
  /\ ~ret.args.freeSpinsMode
  /\ gens[ret.gen].rows = 5
  /\ ret.value.stopPositions = <<0, 118, 117, 116, 5, 60>>

\* C4: version gating.  reconstructGrid with a stripVersion other than the
\* current one throws the version-mismatch error and returns no grid, for
\* any stopPositions argument, well-formed or not, and either mode.
VersionGating ==
  Reconstructed /\ ret.args.stripVersion # "2.0.0" =>
    /\ ret.threw
    /\ ret.error = "Strip version mismatch"
    /\ ret.value = <<>>

\* a malformed stopPositions argument under version 0.0.1
VersionGatingWitness ==
  /\ Reconstructed
  /\ ret.args.stripVersion = "0.0.1"
  /\ ~ret.args.stopPositions.isArray
  /\ ret.args.freeSpinsMode
  /\ ret.threw

\* C5: input validation of reconstruction.  Under the current strip version,
\* reconstructGrid throws the invalid-stop-positions error, and returns no
\* grid, whenever stopPositions is not an array of exactly 6 entries or has
\* an entry outside [0, 120).
Malformed(stopPositions) ==
  \/ ~stopPositions.isArray
  \/ Len(stopPositions.elems) # 6
  \/ \E k \in 1..Len(stopPositions.elems) :
       stopPositions.elems[k] \notin 0..(STRIP_LENGTH - 1)

InputValidation ==
  Reconstructed /\ ret.args.stripVersion = STRIP_VERSION
                /\ Malformed(ret.args.stopPositions) =>
    /\ ret.threw
    /\ ret.error = "Invalid stop positions"

SeededDeterminism ==
  Generated /\ Truthy(ret.args.seed) =>
    LET g == gens[ret.gen]
    IN \A h \in {g, Fresh(g.rows, g.cols)} : \A raws \in LiveGridDraws :
         LET again == generateInitialGrid(h, ret.args.freeSpinsMode,
                                          ret.args.seed, raws)
         IN /\ again.value.stopPositions = ret.value.stopPositions
            /\ again.value.grid = ret.value.grid

\* a seeded grid from a generator that drew live replacement entropy before
SeededDeterminismWitness ==
  /\ Generated
  /\ Truthy(ret.args.seed)
  /\ gens[ret.gen].statistics.replacementSymbolsGenerated >= 1
  /\ rngCalls >= 7

ScatterCount(strip) ==
  Cardinality({k \in 1..Len(strip) : strip[k] = "infinity_glove"})

\* C8: structural validity of the shipped registry.  Each of the 6 base and
\* 6 free-spins strips has exactly 120 elements, each one of the 10 alphabet
\* symbols, and validateStrips() reports valid = true with no errors.
ShippedStripsValid ==
  Validated /\ edits = <<>> =>
    /\ Cardinality(validSymbols) = 10
    /\ \A strips \in {BASE_GAME_STRIPS, FREE_SPINS_STRIPS} :
         /\ Len(strips) = 6
         /\ \A c \in 1..Len(strips) :
              /\ Len(strips[c]) = 120
              /\ \A k \in 1..Len(strips[c]) : strips[c][k] \in validSymbols
    /\ ret.value.valid
    /\ ret.value.errors = <<>>

\* the shipped tables were validated
ShippedStripsValidWitness ==
  Validated /\ edits = <<>> /\ ret.value.valid

\* C9: scatter band of the shipped registry.  Each of the 12 strips holds
\* between 4 and 7 infinity_glove elements, and validateStrips() reports no
\* warnings.
ShippedScatterBand ==
  Validated /\ edits = <<>> =>
    /\ \A strips \in {BASE_GAME_STRIPS, FREE_SPINS_STRIPS} :
         \A c \in 1..Len(strips) : ScatterCount(strips[c]) \in 4..7
    /\ ret.value.warnings = <<>>

\* the shipped tables were validated without a warning
ShippedScatterBandWitness ==
  Validated /\ edits = <<>> /\ ret.value.warnings = <<>>

\* C10: severity rule of validateStrips, for any strip contents.  valid is
\* false exactly when the errors list is non-empty, which is exactly when
\* some mode has other than 6 strips, some strip has other than 120 elements
\* or some element is outside the alphabet; a scatter count outside [4, 7]
\* appends a warning and neither clears valid nor adds an error.
StructuralDefect ==
  \E strips \in {BaseTable, FreeTable} :
    \/ Len(strips) # 6
    \/ \E c \in 1..Len(strips) :
         \/ Len(strips[c]) # 120
         \/ \E k \in 1..Len(strips[c]) : strips[c][k] \notin validSymbols

ScatterOutOfBand ==
  \E strips \in {BaseTable, FreeTable} :
    \E c \in 1..Len(strips) : ScatterCount(strips[c]) \notin 4..7

SeverityRule ==
  Validated =>
    /\ ~ret.value.valid <=> ret.value.errors # <<>>
    /\ ret.value.errors # <<>> <=> StructuralDefect
    /\ ret.value.warnings # <<>> <=> ScatterOutOfBand
    /\ \A k \in 1..Len(ret.value.errors) : ret.value.errors[k].kind # "scatterCount"

\* tables whose only departure is a strip of 8 scatters: a warning, still valid
SeverityRuleWitness ==
  /\ Validated
  /\ edits = <<Edit("scatters", FALSE, 2, 8)>>
  /\ ret.value.valid
  /\ ret.value.errors = <<>>
  /\ ret.value.warnings # <<>>

\* a spin was served: the latest call returned a grid or replacement draws
Served ==
  /\ ret.op \in {"generateInitialGrid", "generateReplacementSymbol",
                 "generateReplacementSymbols", "reconstructGrid"}
  /\ ~ret.threw

\* C11: startup gating.  On a registry for which validateStrips reports a
\* structural error (strip count, strip length, unknown symbol), no
\* generateInitialGrid, generateReplacementSymbol(s) or reconstructGrid call
\* returns a result.
StartupGating ==
  Served => validateStrips.errors = <<>>

\* C12: audit isolation.  When the audit sink throws while handling the
\* stop-positions event or the grid-generated event, generateInitialGrid
\* still returns its {grid, stopPositions, stripVersion} result and still
\* updates the statistics counters.
AuditIsolation ==
  [][ret'.op = "generateInitialGrid"
        => /\ ~ret'.threw
           /\ gens'[ret'.gen].statistics.gridsGenerated =
                gens[ret'.gen].statistics.gridsGenerated + 1]_vars

\* the audit events the step emits
Emitted == SubSeq(auditLog', Len(auditLog) + 1, Len(auditLog'))

\* the events of the given kind among events
OfKind(events, kind) ==
  LET Is(e) == e.event = kind
  IN SelectSeq(events, Is)

\* the step is a generateInitialGrid call that returns, and it emits exactly
\* one GRID_GENERATED_FROM_STRIPS event, whose stopPositions, stripVersion
\* and mode, given to reconstructGrid, yield the grid the call returns
OneReplayableRecord ==
  LET records == OfKind(Emitted, "GRID_GENERATED_FROM_STRIPS")
  IN /\ Len(records) = 1
     /\ LET payload == records[1].data
            replay == reconstructGrid(gens'[ret'.gen], Arr(payload.stopPositions),
                                      payload.freeSpinsMode, payload.stripVersion)
        IN /\ ~replay.threw
           /\ replay.value = ret'.value.grid

\* C13 as stated: every generateInitialGrid call that returns emits exactly
\* one grid-generated audit event, and that event's {stopPositions,
\* stripVersion, mode} alone reconstructs the returned grid.
CompleteAuditRecordAlways ==
  [][ret'.op = "generateInitialGrid" /\ ~ret'.threw => OneReplayableRecord]_vars

\* C13: complete audit record per grid.  On a generator constructed with
\* audit logging enabled (the default), every generateInitialGrid call that
\* returns emits exactly one grid-generated audit event, and that event's
\* {stopPositions, stripVersion, mode} alone reconstructs the returned grid.
CompleteAuditRecord ==
  [][ret'.op = "generateInitialGrid" /\ ~ret'.threw
       /\ gens[ret'.gen].auditLogging => OneReplayableRecord]_vars

\* a free-spins grid of 3 rows, seeded, whose record is the latest event
CompleteAuditRecordWitness ==
  /\ Generated
  /\ gens[ret.gen].auditLogging
  /\ gens[ret.gen].rows = 3
  /\ ret.args.freeSpinsMode
  /\ Truthy(ret.args.seed)
  /\ auditLog # <<>>
  /\ auditLog[Len(auditLog)].event = "GRID_GENERATED_FROM_STRIPS"
  /\ auditLog[Len(auditLog)].data.stopPositions = ret.value.stopPositions

\* the step is a replacement call that returns
ReplacementReturned ==
  /\ ret'.op \in {"generateReplacementSymbol", "generateReplacementSymbols"}
  /\ ~ret'.threw

\* the ReplacementDraws a returned replacement call hands to its caller, as
\* {column, stripPosition, symbol, mode, stripVersion}
DrawsOf(r) ==
  IF r.op = "generateReplacementSymbol"
    THEN <<[column |-> r.value.column, stripPosition |-> r.value.stripPosition,
            symbol |-> r.value.symbol, mode |-> r.value.freeSpinsMode,
            stripVersion |-> r.value.stripVersion]>>
    ELSE [k \in 1..Len(r.value) |->
            [column |-> r.value[k].col, stripPosition |-> r.value[k].stripPosition,
             symbol |-> r.value[k].symbol, mode |-> r.args.freeSpinsMode,
             stripVersion |-> r.value[k].stripVersion]]

\* C14: every replacement draw is individually audit-logged.  For every
\* ReplacementDraw a generateReplacementSymbol or generateReplacementSymbols
\* call returns, the call emits an event of that draw, recording its column,
\* strip position and symbol: as many such events as draws returned.
EveryDrawAudited ==
  [][ReplacementReturned =>
       LET draws == DrawsOf(ret')
           records == OfKind(Emitted, "REPLACEMENT_SYMBOL_GENERATED")
       IN /\ Len(records) = Len(draws)
          /\ \A k \in 1..Len(draws) :
               /\ records[k].data.column = draws[k].column
               /\ records[k].data.stripPosition = draws[k].stripPosition
               /\ records[k].data.symbol = draws[k].symbol]_vars

\* the latest call is a replacement call that returned
Replaced ==
  /\ ret.op \in {"generateReplacementSymbol", "generateReplacementSymbols"}
  /\ ~ret.threw

\* the shipped strip of a column in a mode
ShippedStrip(column, mode) ==
  (IF mode THEN FREE_SPINS_STRIPS ELSE BASE_GAME_STRIPS)[column + 1]

\* C15: replacement record is verifiable.  Every ReplacementDraw that
\* generateReplacementSymbol or generateReplacementSymbols returns has
\* 0 <= stripPosition < 120, the current strip version, and the symbol at
\* stripPosition of the strip of its column in the requested mode.
VerifiableReplacement ==
  Replaced =>
    \A k \in 1..Len(DrawsOf(ret)) :
      LET draw == DrawsOf(ret)[k]
      IN /\ draw.column \in 0..5
         /\ draw.stripPosition \in 0..(STRIP_LENGTH - 1)
         /\ draw.stripVersion = STRIP_VERSION
         /\ draw.symbol = ShippedStrip(draw.column, draw.mode)[draw.stripPosition + 1]

\* a live draw at the last position of the base strip of column 5
VerifiableReplacementWitness ==
  /\ Replaced
  /\ ret.op = "generateReplacementSymbol"
  /\ ret.value.stripPosition = STRIP_LENGTH - 1
  /\ ret.value.column = 5
  /\ ret.value.symbol = BaseStrip5[STRIP_LENGTH]

RECURSIVE Reverse(_)
Reverse(seq) ==
  IF seq = <<>> THEN <<>> ELSE Append(Reverse(Tail(seq)), Head(seq))

\* C16: seeded replacement determinism.  With a cascade seed, the
\* stripPosition and symbol of every draw of a returned batch are those that
\* generateReplacementSymbol(column, mode, seed) returns for the composite
\* seed of cascadeSeed, column and row, and those that the cell gets when it
\* is requested alone or with the batch in the opposite order, on the same
\* generator and on one on which nothing was ever called, whatever the live
\* entropy source would deliver.
SeededReplacementDeterminism ==
  ret.op = "generateReplacementSymbols" /\ ~ret.threw
    /\ Truthy(ret.args.cascadeSeed) =>
    LET g == gens[ret.gen]
        mode == ret.args.freeSpinsMode
        seed == ret.args.cascadeSeed
    IN \A k \in 1..Len(ret.value) :
         \A h \in {g, Fresh(g.rows, g.cols)} : \A raws \in LiveBatchDraws :
           LET draw == ret.value[k]
               single == generateReplacementSymbol(h, draw.col, mode,
                           PositionSeed(seed, draw.col, draw.row), raws[1])
               alone == generateReplacementSymbols(h, <<Cell(draw.col, draw.row)>>,
                           mode, seed, raws)
               turned == generateReplacementSymbols(h, Reverse(ret.args.positions),
                           mode, seed, raws)
           IN /\ ~single.threw
              /\ single.value.stripPosition = draw.stripPosition
              /\ single.value.symbol = draw.symbol
              /\ alone.value = <<draw>>
              /\ \A j \in 1..Len(turned.value) :
                    turned.value[j].col = draw.col /\ turned.value[j].row = draw.row
                      => turned.value[j] = draw

\* a seeded batch of three cells, one of them requested twice, after a
\* grid was generated
SeededReplacementDeterminismWitness ==
  /\ ret.op = "generateReplacementSymbols"
  /\ ~ret.threw
  /\ Truthy(ret.args.cascadeSeed)
  /\ Len(ret.value) = 3
  /\ ret.value[2] = ret.value[3]
  /\ ret.value[1].stripPosition # ret.value[2].stripPosition
  /\ gens[ret.gen].statistics.gridsGenerated > 0

\* how many times cell occurs among the {col, row} of cells
Occurrences(cells, cell) ==
  Cardinality({k \in 1..Len(cells) :
                 cells[k].col = cell.col /\ cells[k].row = cell.row})

\* C17: batch completeness.  A generateReplacementSymbols call that returns
\* returns one ReplacementDraw per requested cell: every {col, row} occurs in
\* the result as many times as in the request, grouped by column.
BatchCompleteness ==
  ret.op = "generateReplacementSymbols" /\ ~ret.threw =>
    /\ Len(ret.value) = Len(ret.args.positions)
    /\ \A k \in 1..Len(ret.args.positions) :
         Occurrences(ret.value, ret.args.positions[k]) =
           Occurrences(ret.args.positions, ret.args.positions[k])
    /\ \A k \in 1..Len(ret.value) :
         Occurrences(ret.args.positions, ret.value[k]) > 0
    /\ \A j, k \in 1..Len(ret.value) :
         j < k /\ ret.value[j].col = ret.value[k].col =>
           \A n \in j..k : ret.value[n].col = ret.value[j].col

\* a batch whose request names a cell twice and is not grouped by column
BatchCompletenessWitness ==
  /\ ret.op = "generateReplacementSymbols"
  /\ ~ret.threw
  /\ ret.args.positions = <<Cell(5, 1), Cell(0, 0), Cell(5, 1)>>
  /\ ret.value[1].col = 0
  /\ ret.value[2].col = 5
  /\ ret.value[3].col = 5

\* C18: generateReplacementSymbol with a column outside [0, 6) throws the
\* invalid-column Error and has no effect: no entropy is drawn,
\* replacementSymbolsGenerated (and the rest of the generator) is unchanged
\* and no audit event is emitted.  The same holds of the method on a
\* generator of 3 or 7 columns, where the registry lookup refuses column 6.
InvalidColumnRefused ==
  [][ret'.op = "generateReplacementSymbol" /\ ret'.args.column \notin 0..5 =>
       /\ ret'.threw
       /\ ret'.error = "Invalid column index"
       /\ rngCalls' = rngCalls
       /\ gens' = gens
       /\ auditLog' = auditLog
       /\ \A cols \in {3, 6, 7} : \A raw \in LiveDraws :
            LET g == [gens[ret'.gen] EXCEPT !.cols = cols]
                out == generateReplacementSymbol(g, ret'.args.column,
                         ret'.args.freeSpinsMode, ret'.args.seed, raw)
            IN /\ out.threw
               /\ out.error = "Invalid column index"
               /\ out.draws = 0
               /\ out.events = <<>>
               /\ out.gen = g]_vars

\* column 6 refused on a generator with audit logging on that has drawn
\* entropy before
InvalidColumnRefusedWitness ==
  /\ ret.op = "generateReplacementSymbol"
  /\ ret.args.column = 6
  /\ ret.threw
  /\ rngCalls > 0
  /\ gens[ret.gen].auditLogging

\* C19: registry lookup.  getStrip(column, mode) throws the invalid-column
\* Error for every column index below 0 or from 6 up, and for every column
\* in 0..5 returns that column's strip of the requested mode, of 120 elements.
RegistryLookup ==
  ret.op = "getStrip" =>
    IF ret.args.column \in 0..5
      THEN /\ ~ret.threw
           /\ Len(ret.value) = STRIP_LENGTH
           /\ ret.value = ShippedStrip(ret.args.column, ret.args.freeSpinsMode)
      ELSE /\ ret.threw
           /\ ret.error = "Invalid column index"

\* getStrip(6, false) refused
RegistryLookupWitness ==
  /\ ret.op = "getStrip"
  /\ ret.args.column = 6
  /\ ~ret.args.freeSpinsMode
  /\ ret.threw

\* the step is a method call on a generator
MethodCall ==
  ret'.op \in {"generateInitialGrid", "generateReplacementSymbol",
               "generateReplacementSymbols", "reconstructGrid", "resetStatistics"}

\* the step is a reconstructGrid call that returns, and it emits exactly one
\* event, a GRID_RECONSTRUCTED of the stop positions it was given
OneReconstructedEvent ==
  /\ Len(Emitted) = 1
  /\ Emitted[1].event = "GRID_RECONSTRUCTED"
  /\ Emitted[1].data.stopPositions = ret'.args.stopPositions.elems

\* the step emits no STOP_POSITIONS_GENERATED and no
\* GRID_GENERATED_FROM_STRIPS event
NoGenerationEvent ==
  /\ OfKind(Emitted, "STOP_POSITIONS_GENERATED") = <<>>
  /\ OfKind(Emitted, "GRID_GENERATED_FROM_STRIPS") = <<>>

ReplayIsReadOnly ==
  [][ret'.op = "reconstructGrid" =>
       /\ rngCalls' = rngCalls
       /\ gens' = gens
       /\ instance' = instance
       /\ Len(Emitted) <= 1
       /\ OfKind(Emitted, "GRID_RECONSTRUCTED") = Emitted
       /\ ret'.threw => Emitted = <<>>]_vars

\* a replay of other stop positions than the latest grid's, on a generator
\* that has generated a grid and drawn entropy
ReplayIsReadOnlyWitness ==
  /\ ret.op = "reconstructGrid"
  /\ ~ret.threw
  /\ rngCalls > 0
  /\ gens[ret.gen].statistics.gridsGenerated = 1
  /\ gens[ret.gen].statistics.lastStopPositions # ret.args.stopPositions.elems

\* C22: stop-position well-formedness.  In every result of
\* generateInitialGrid, seeded or live, in either mode, stopPositions is a
\* sequence of exactly 6 integers, each in [0, 120), and reconstructGrid
\* accepts it under the current version.
StopPositionsWellFormed ==
  Generated =>
    LET stopPositions == ret.value.stopPositions
    IN /\ Len(stopPositions) = 6
       /\ \A c \in 1..Len(stopPositions) :
            stopPositions[c] \in 0..(STRIP_LENGTH - 1)
       /\ \A freeSpinsMode \in BOOLEAN :
            ~reconstructGrid(gens[ret.gen], Arr(stopPositions), freeSpinsMode,
                             ret.value.stripVersion).threw

\* live stop positions starting at the last position of a strip
StopPositionsWellFormedWitness ==
  /\ Generated
  /\ ret.value.stopPositions[1] = STRIP_LENGTH - 1
  /\ ret.args.seed = NoSeed

\* the step is a generateInitialGrid call that returns
GridReturned == ret'.op = "generateInitialGrid" /\ ~ret'.threw

\* the statistics of the generator the step calls, before and after
StatsBefore == gens[ret'.gen].statistics
StatsAfter == gens'[ret'.gen].statistics

SingletonBehaviour ==
  [][/\ instance # 0 => instance' = instance
     /\ ret'.op = "getReelStripGenerator" =>
          /\ instance' # 0
          /\ ret'.value = instance'
          /\ instance # 0 =>
               /\ gens' = gens
               /\ auditLog' = auditLog
     /\ ret'.op = "createReelStripGenerator" =>
          /\ ret'.value = Len(gens) + 1
          /\ Len(gens') = Len(gens) + 1
          /\ ret'.value # instance'
          /\ gens'[ret'.value].statistics = NewStatistics
          /\ gens'[ret'.value].rows =
               (IF ret'.args.rows # 0 THEN ret'.args.rows ELSE DEFAULT_ROWS)
          /\ \A j \in 1..Len(gens) : gens'[j] = gens[j]
     /\ MethodCall =>
          \A j \in 1..Len(gens) : j # ret'.gen => gens'[j] = gens[j]]_vars

\* getReelStripGenerator({rows: 3}) returning the 5-row singleton that has
\* generated a grid, while a second, unused generator exists
SingletonBehaviourWitness ==
  /\ ret.op = "getReelStripGenerator"
  /\ ret.args.rows = 3
  /\ ret.value = instance
  /\ gens[instance].rows = DEFAULT_ROWS
  /\ gens[instance].statistics.gridsGenerated > 0
  /\ Len(gens) = 2
  /\ \E j \in 1..Len(gens) : j # instance /\ gens[j].statistics = NewStatistics

\* the counters of a Statistics object are those of a reset one
StatisticsCleared(st) ==
  /\ st.gridsGenerated = 0
  /\ st.symbolsGenerated = 0
  /\ st.replacementSymbolsGenerated = 0
  /\ st.lastStopPositions = Null

\* C24: statistics are reset only by resetStatistics.  Step by step: a
\* generateInitialGrid call that succeeds counts one grid and columns x rows
\* symbols and remembers its stop positions; resetStatistics sets the three
\* counters to 0 and lastStopPositions to null; every other step, a
\* generateInitialGrid call that fails included, leaves gridsGenerated,
\* symbolsGenerated and lastStopPositions as they were and decreases no
\* counter; so symbolsGenerated is always gridsGenerated x columns x rows.
StatisticsCountSuccessfulGrids ==
  [][\A i \in 1..Len(gens) :
       LET before == gens[i].statistics
           after == gens'[i].statistics
       IN /\ after.symbolsGenerated =
               after.gridsGenerated * gens'[i].cols * gens'[i].rows
          /\ IF ret'.op = "resetStatistics" /\ ret'.gen = i
               THEN StatisticsCleared(after)
             ELSE IF GridReturned /\ ret'.gen = i
               THEN /\ after.gridsGenerated = before.gridsGenerated + 1
                    /\ after.lastStopPositions = ret'.value.stopPositions
                    /\ after.replacementSymbolsGenerated =
                         before.replacementSymbolsGenerated
             ELSE /\ after.gridsGenerated = before.gridsGenerated
                  /\ after.symbolsGenerated = before.symbolsGenerated
                  /\ after.lastStopPositions = before.lastStopPositions
                  /\ after.replacementSymbolsGenerated >=
                       before.replacementSymbolsGenerated]_vars

\* C28: the replacement counter matches the draws delivered.  Step by step:
\* a replacement call that returns adds the number of ReplacementDraws it
\* returns, resetStatistics sets the counter to 0, and every other step, a
\* replacement call that throws included, leaves the counter unchanged.
ReplacementCounterMatchesDraws ==
  [][\A i \in 1..Len(gens) :
       LET before == gens[i].statistics.replacementSymbolsGenerated
           after == gens'[i].statistics.replacementSymbolsGenerated
       IN IF ret'.op = "resetStatistics" /\ ret'.gen = i
            THEN after = 0
          ELSE IF ReplacementReturned /\ ret'.gen = i
            THEN after = before + Len(DrawsOf(ret'))
          ELSE after = before]_vars

\* the number of scatters in the window of the default grid that starts at
\* each stop position of a strip
ScatterWindows(strip) ==
  [p \in 0..(Len(strip) - 1) |->
     ScatterCount(GridColumn(Fresh(DEFAULT_ROWS, DEFAULT_COLS), strip, p))]

\* for k = 0..rows, the number of stop positions whose window holds k scatters
WindowTally(strip) ==
  LET windows == ScatterWindows(strip)
  IN [k \in 0..DEFAULT_ROWS |->
        Cardinality({p \in DOMAIN windows : windows[p] = k})]

RECURSIVE Gcd(_, _)
Gcd(a, b) == IF b = 0 THEN a ELSE Gcd(b, a % b)

RECURSIVE GcdOf(_, _)
GcdOf(tally, k) == IF k < 0 THEN 0 ELSE Gcd(tally[k], GcdOf(tally, k - 1))

\* a tally in lowest terms: the same proportions, in numbers small enough
\* for the product over 6 columns
LowestTerms(tally) ==
  [k \in DOMAIN tally |-> tally[k] \div GcdOf(tally, DEFAULT_ROWS)]

\* the tallies of the 6 shipped base strips, in lowest terms
BaseTallies ==
  [c \in 1..Len(BASE_GAME_STRIPS) |->
     LowestTerms(WindowTally(BASE_GAME_STRIPS[c]))]

RECURSIVE SumUpTo(_, _)
SumUpTo(f, k) == IF k < 0 THEN 0 ELSE f[k] + SumUpTo(f, k - 1)

\* the weight of the stop-position tuples of columns 1..c whose windows hold
\* exactly n scatters together
RECURSIVE TuplesWith(_, _)
TuplesWith(c, n) ==
  IF c = 0 THEN (IF n = 0 THEN 1 ELSE 0)
  ELSE SumUpTo([k \in 0..DEFAULT_ROWS |->
                  IF k > n \/ BaseTallies[c][k] = 0 THEN 0
                  ELSE BaseTallies[c][k] * TuplesWith(c - 1, n - k)],
               DEFAULT_ROWS)

RECURSIVE AllTuplesOf(_)
AllTuplesOf(c) ==
  IF c = 0 THEN 1
  ELSE SumUpTo(BaseTallies[c], DEFAULT_ROWS) * AllTuplesOf(c - 1)

\* all tuples of 6 stop positions, and those whose grid holds 4 scatters or
\* more, both as multiples of the same unit
AllTuples == AllTuplesOf(DEFAULT_COLS)
TriggerTuples ==
  AllTuples - SumUpTo([n \in 0..3 |-> TuplesWith(DEFAULT_COLS, n)], 3)

\* the scatters of a grid
GridScatters(grid) ==
  Cardinality({cell \in UNION {{<<c, r>> : r \in 1..Len(grid[c])} :
                                 c \in 1..Len(grid)} :
                 grid[cell[1]][cell[2]] = SCATTER})

\* C25: scatter trigger rate.  The scatters of a 6 x 5 base-mode grid are
\* those of the 6 windows its stop positions select, each position one of
\* the 120 that are tallied; and of all tuples of 6 stop positions, each
\* equally likely, those whose grid holds at least 4 scatters are between
\* 1% and 5%.
ScatterTriggerRate ==
  /\ Generated
  /\ ~ret.args.freeSpinsMode
  /\ edits = <<>>
  /\ gens[ret.gen].rows = DEFAULT_ROWS
  /\ gens[ret.gen].cols = DEFAULT_COLS
  => /\ \A c \in 1..DEFAULT_COLS :
          /\ ret.value.stopPositions[c] \in 0..(STRIP_LENGTH - 1)
          /\ GridScatters(<<ret.value.grid[c]>>) =
               ScatterWindows(BASE_GAME_STRIPS[c])[ret.value.stopPositions[c]]
     /\ 100 * TriggerTuples >= AllTuples
     /\ 100 * TriggerTuples <= 5 * AllTuples

\* a 6 x 5 base-mode grid from live draws, with a scatter in it
ScatterTriggerRateWitness ==
  /\ Generated
  /\ ~ret.args.freeSpinsMode
  /\ ~Truthy(ret.args.seed)
  /\ gens[ret.gen].rows = DEFAULT_ROWS
  /\ gens[ret.gen].cols = DEFAULT_COLS
  /\ GridScatters(ret.value.grid) > 0

\* the step is a generateReplacementSymbols call that returns
BatchReturned == ret'.op = "generateReplacementSymbols" /\ ~ret'.threw

\* the step emits exactly one event, a REPLACEMENT_SYMBOLS_BATCH_GENERATED
\* whose count is the number of ReplacementDraws the call returns and the
\* number of draws the call made
OneBatchEvent ==
  /\ Len(Emitted) = 1
  /\ Emitted[1].event = "REPLACEMENT_SYMBOLS_BATCH_GENERATED"
  /\ Emitted[1].data.count = Len(ret'.value)
  /\ Emitted[1].data.count = rngCalls' - rngCalls

\* C26 as stated: every generateReplacementSymbols call that returns emits
\* exactly one batch event, whose count is the number of draws returned.
BatchAuditEventAlways ==
  [][BatchReturned => OneBatchEvent]_<<gens, rngCalls, auditLog, ret.op,
                                       ret.threw>>

\* C26: batch audit event.  On a generator with audit logging enabled,
\* every generateReplacementSymbols call that returns emits exactly one
\* REPLACEMENT_SYMBOLS_BATCH_GENERATED event, built after all draws of the
\* batch, whose count is the number of ReplacementDraws returned (0 for an
\* empty request); a call that throws emits no batch event.
BatchAuditEvent ==
  [][/\ BatchReturned /\ gens[ret'.gen].auditLogging => OneBatchEvent
     /\ ret'.op = "generateReplacementSymbols" /\ ret'.threw =>
          Emitted = <<>>]_vars

\* a logged batch of three draws over two columns
BatchAuditEventWitness ==
  /\ ret.op = "generateReplacementSymbols"
  /\ ~ret.threw
  /\ Len(ret.value) = 3
  /\ gens[ret.gen].auditLogging
  /\ auditLog # <<>>
  /\ auditLog[Len(auditLog)].event = "REPLACEMENT_SYMBOLS_BATCH_GENERATED"
  /\ auditLog[Len(auditLog)].data.count = 3

\* the composition the header of the registry documents for every strip
TargetDistribution ==
  [symbol \in validSymbols |->
     CASE symbol = "time_gem" -> 17
       [] symbol = "space_gem" -> 17
       [] symbol = "mind_gem" -> 14
       [] symbol = "power_gem" -> 13
       [] symbol = "reality_gem" -> 13
       [] symbol = "soul_gem" -> 12
       [] symbol = "thanos_weapon" -> 11
       [] symbol = "scarlet_witch" -> 8
       [] symbol = "thanos" -> 7
       [] symbol = "infinity_glove" -> 5]

\* C27: documented strip composition.  getStripStatistics(false) over the
\* shipped registry reports, for each of the 6 base strips, exactly the
\* symbol counts of the header: 17 time_gem, 17 space_gem, 14 mind_gem,
\* 13 power_gem, 13 reality_gem, 12 soul_gem, 11 thanos_weapon,
\* 8 scarlet_witch, 7 thanos and 5 infinity_glove.
DocumentedComposition ==
  /\ ret.op = "getStripStatistics"
  /\ ~ret.args.freeSpinsMode
  /\ edits = <<>>
  => \A c \in 1..Len(ret.value.columns) :
       ret.value.columns[c].symbolCounts = TargetDistribution

\* C29: audit event ordering.  With audit logging enabled the first event
\* of the generator is REEL_STRIP_GENERATOR_INITIALIZED, and every
\* GRID_GENERATED_FROM_STRIPS event directly follows the
\* STOP_POSITIONS_GENERATED event of the same call, which carries the same
\* positions; a generator with audit logging disabled emits nothing, not
\* even at construction: the log holds one REEL_STRIP_GENERATOR_INITIALIZED
\* per logging generator and is empty when there is none.
AuditEventOrdering ==
  /\ auditLog # <<>> => auditLog[1].event = "REEL_STRIP_GENERATOR_INITIALIZED"
  /\ \A k \in 1..Len(auditLog) :
       auditLog[k].event = "GRID_GENERATED_FROM_STRIPS" =>
         /\ k > 1
         /\ auditLog[k - 1].event = "STOP_POSITIONS_GENERATED"
         /\ auditLog[k - 1].data.positions = auditLog[k].data.stopPositions
  /\ Generated /\ gens[ret.gen].auditLogging =>
       /\ Len(auditLog) >= 3
       /\ auditLog[Len(auditLog)].event = "GRID_GENERATED_FROM_STRIPS"
       /\ auditLog[Len(auditLog)].data.stopPositions = ret.value.stopPositions
  /\ Len(OfKind(auditLog, "REEL_STRIP_GENERATOR_INITIALIZED")) =
       Cardinality({i \in 1..Len(gens) : gens[i].auditLogging})

\* the log of a logging generator after its first grid
AuditEventOrderingWitness ==
  /\ Generated
  /\ gens[ret.gen].auditLogging
  /\ Len(auditLog) = 3
  /\ auditLog[1].event = "REEL_STRIP_GENERATOR_INITIALIZED"
  /\ auditLog[2].event = "STOP_POSITIONS_GENERATED"
  /\ auditLog[3].event = "GRID_GENERATED_FROM_STRIPS"

====
